---- MODULE Spec2Model ----
(***************************************************************************)
(* A model of the stdio-to-HTTP bridge of server/src: the shared state     *)
(* (state.rs), the HTTP bridge handlers (bridge_http.rs) and the stdio     *)
(* JSON-RPC loop with its tool-call orchestrator (mcp_stdio.rs).           *)
(*                                                                         *)
(* Every lock acquisition of state.rs is one atomic step.  Time is a       *)
(* global clock in seconds; a timer (tokio::time::timeout) fires when the  *)
(* clock has reached its deadline, and the clock does not pass a deadline  *)
(* while the timer that owns it is still armed.                            *)
(***************************************************************************)
EXTENDS Integers, Sequences, FiniteSets, TLC

\* ------------------------------------------------------------------ bounds

\* client ids minted by /register (uuid::Uuid::new_v4, never reused)
MaxClients == 1
\* lines read from stdin; every tools/call mints at most one request id
MaxLines == 2
\* the clock stops here: late enough for two tool calls to time out
MaxTime == 60
\* the clock of the stdio runs stops here: late enough for a client to go stale
MaxTimeStdio == 90
\* the longest step of the clock
Step == 30
\* the registries that enqueue_tool_request is applied to hold up to this
\* many clients, polled at times up to MaxPoll
MaxRegistry == 2
MaxPoll == 1
MaxLogs == 3
LineChunks == 2

\* ------------------------------------------------------- program constants

TOOL_CALL_TIMEOUT == 30
PULL_TIMEOUT == 25
PRUNE_CUTOFF == 60
MAX_LOG_BUFFER == 500

\* --------------------------------------------------------------- strings

\* A string that the code searches is a tuple of characters.
S_playtest == <<"p", "l", "a", "y", "t", "e", "s", "t">>
S_unknown == <<"u", "n", "k", "n", "o", "w", "n">>
S_empty == <<>>
S_1_0 == <<"1", ".", "0">>
S_1_0_playtest == S_1_0 \o <<"-">> \o S_playtest
S_play_test == <<"p", "l", "a", "y", "-", "t", "e", "s", "t">>

\* str::contains
Contains(s, pat) ==
    \E i \in 1..(Len(s) + 1) :
        /\ i + Len(pat) - 1 <= Len(s)
        /\ SubSeq(s, i, i + Len(pat) - 1) = pat

\* ------------------------------------------------------------ JSON values

\* Option<T>: <<>> is None, <<v>> is Some(v)
None == <<>>
Some(v) == <<v>>
IsSome(o) == Len(o) > 0
Unwrap(o) == o[1]

\* serde_json::Value, as far as the code looks into it
JString(s) == [t |-> "string", s |-> s, b |-> FALSE]
JBool(b) == [t |-> "bool", s |-> "", b |-> b]

\* serde_json::to_string_pretty
to_string_pretty(v) ==
    IF v.t = "string" THEN "\"" \o v.s \o "\""
    ELSE IF v.b THEN "true" ELSE "false"

Min(a, b) == IF a <= b THEN a ELSE b

\* --------------------------------------------------------------- variables

VARIABLES
    now,            \* chrono::Utc::now(), in seconds
    clients,        \* Inner.clients: client id -> ClientState
    next_client,    \* client ids minted so far
    permit,         \* per minted client: its Notify holds a stored permit
    waiters,        \* per minted client: the /pull handlers waiting on its Notify
    pull,           \* per /pull handler: pc, client_id, deadline, HTTP response
    pending_calls,  \* Inner.pending_calls: the request ids that hold a sender
    next_request,   \* request ids minted so far
    pc,             \* the stdio loop's position
    call,           \* the tools/call being handled: id, request_id, tool_name, deadline
    rx,             \* the oneshot receiver of the call being handled
    lines,          \* stdin lines read so far
    stdout,         \* the JSON-RPC responses written, in order
    enqueued,       \* history: per minted client, the requests appended to its queue
    drained,        \* history: per minted client, the requests its drains returned
    push_results,   \* history: what each resolve_pending of the last /push returned
    issued,         \* history: per request id, the JSON-RPC id and tool of its tools/call
    delivered,      \* history: per request id, the response sent into its reply slot
    requests_read,  \* history: the JSON-RPC ids of the requests read from stdin
    log_seq,        \* Inner.log_seq
    log_buffer,     \* Inner.log_buffer
    playtest_state, \* Inner.playtest_state
    config,         \* AppState.config.token
    http_response,  \* the last response of a handler that returned at once
    log_task,       \* per /push handler: the LogEntry that push_log has built
                    \* under the log_seq lock and not yet appended
    writer,         \* the stdout writer task: its position, the number of
                    \* lines it has received, the line it is writing
    terminal,       \* the process's standard output, in write calls
    mutex,          \* per Mutex of Inner: the task that holds its guard
    running,        \* per task: the lock operations its handler has yet to do
    status_task     \* handle_status_tool: the values it has read so far

vars == <<now, clients, next_client, permit, waiters, pull,
          pending_calls, next_request, pc, call, rx, lines, stdout,
          enqueued, drained, push_results, issued, delivered,
          requests_read, log_seq, log_buffer, playtest_state,
          config, http_response, log_task, writer, terminal,
          mutex, running, status_task>>

http_vars == <<clients, next_client, permit, waiters, pull>>
stdio_vars == <<pc, call, lines, stdout>>
event_vars == <<log_seq, log_buffer, playtest_state>>
writer_vars == <<writer, terminal>>
task_vars == <<mutex, running, status_task>>
bridge_vars == <<config, http_response, log_task, writer_vars, task_vars>>
history_vars == <<enqueued, drained, push_results, issued, delivered,
                  requests_read>>

ClientIds == 1..(IF MaxClients > MaxRegistry THEN MaxClients ELSE MaxRegistry)
\* a clientId no /register ever returned
UnknownClient == 0
\* a request_id no tools/call ever minted
UnknownRequest == 0
\* the /pull handlers that can run at once
Handlers == {1, 2}
\* the handler of a plugin that issues one /pull at a time
Pollers == {1}
\* the /push handlers that can run at once
Pushers == {1, 2}

\* ------------------------------------------------------------- state.rs

\* a faulty is_playtest_bridge: equality in place of contains
is_playtest_bridge_exact(c) == c.plugin_version = S_playtest

\* ClientState::is_playtest_bridge
is_playtest_bridge(c) == Contains(c.plugin_version, S_playtest)

\* SharedState::register_client: the map with the fresh entry inserted
register_client(cl, client_id, plugin_version, t) ==
    [k \in DOMAIN cl \cup {client_id} |->
        IF k = client_id
        THEN [plugin_version |-> plugin_version,
              outbound_queue |-> <<>>,
              last_poll |-> t]
        ELSE cl[k]]

\* a faulty prune_stale_clients: nothing is removed
prune_stale_clients_none(cl, t) == cl

\* a faulty prune_stale_clients: the cutoff is the length of a long poll
prune_stale_clients_short(cl, t) ==
    LET cutoff == t - PULL_TIMEOUT
        stale == {k \in DOMAIN cl : cl[k].last_poll < cutoff}
    IN  [k \in DOMAIN cl \ stale |-> cl[k]]

\* a faulty prune_stale_clients: a client whose last poll is exactly 60 s
\* old is removed too
prune_stale_clients_inclusive(cl, t) ==
    LET cutoff == t - PRUNE_CUTOFF
        stale == {k \in DOMAIN cl : cl[k].last_poll <= cutoff}
    IN  [k \in DOMAIN cl \ stale |-> cl[k]]

\* SharedState::prune_stale_clients: the map without the clients whose
\* last_poll is before the cutoff
prune_stale_clients(cl, t) ==
    LET cutoff == t - PRUNE_CUTOFF
        stale == {k \in DOMAIN cl : cl[k].last_poll < cutoff}
    IN  [k \in DOMAIN cl \ stale |-> cl[k]]

\* the matches! of enqueue_tool_request
prefers_bridge(tool_name) ==
    tool_name \in {"studio-virtualuser_key",
                   "studio-virtualuser_mouse_button",
                   "studio-virtualuser_move_mouse",
                   "studio-npc_driver_start",
                   "studio-npc_driver_command",
                   "studio-npc_driver_stop",
                   "studio-playtest_stop"}

\* find_map over the HashMap: its iteration order is not defined, so any
\* client of the preferred type may be the one found
preferred_keys(cl, tool_name) ==
    {k \in DOMAIN cl : prefers_bridge(tool_name) = is_playtest_bridge(cl[k])}

\* a faulty fallback: min_by_key in place of max_by_key
most_recent_keys_least(cl) ==
    {k \in DOMAIN cl : \A j \in DOMAIN cl : cl[k].last_poll <= cl[j].last_poll}

\* max_by_key(last_poll): among equal maxima the one met last in the
\* HashMap's iteration order, hence any of them
most_recent_keys(cl) ==
    {k \in DOMAIN cl : \A j \in DOMAIN cl : cl[j].last_poll <= cl[k].last_poll}

\* the target_key block of enqueue_tool_request: the keys it may yield
target_keys(cl, tool_name) ==
    IF preferred_keys(cl, tool_name) # {}
    THEN preferred_keys(cl, tool_name)
    ELSE most_recent_keys(cl)

\* a faulty push_back: push_front
push_front(cl, key, request) ==
    [cl EXCEPT ![key].outbound_queue = <<request>> \o @]

\* client.outbound_queue.push_back(request)
push_back(cl, key, request) ==
    [cl EXCEPT ![key].outbound_queue = Append(@, request)]

\* a faulty enqueue_tool_request: no fallback when no client of the
\* preferred type is registered
enqueue_tool_request_no_fallback(cl, request) ==
    IF preferred_keys(cl, request.tool_name) = {}
    THEN {[ok |-> FALSE, clients |-> cl, key |-> UnknownClient]}
    ELSE {[ok |-> TRUE, clients |-> push_back(cl, key, request), key |-> key]
          : key \in preferred_keys(cl, request.tool_name)}

\* SharedState::enqueue_tool_request: the ways it may come out: what it
\* returns, the map afterwards, and the key whose Notify it signalled
enqueue_tool_request(cl, request) ==
    IF DOMAIN cl = {}
    THEN {[ok |-> FALSE, clients |-> cl, key |-> UnknownClient]}
    ELSE {[ok |-> TRUE, clients |-> push_back(cl, key, request), key |-> key]
          : key \in target_keys(cl, request.tool_name)}

\* SharedState::drain_outbound: the requests returned
drain_requests(cl, client_id) ==
    IF client_id \in DOMAIN cl THEN cl[client_id].outbound_queue ELSE <<>>

\* a faulty drain_outbound: an unknown client is inserted
drain_outbound_insert(cl, client_id, t) ==
    IF client_id \in DOMAIN cl
    THEN [cl EXCEPT ![client_id].last_poll = t,
                    ![client_id].outbound_queue = <<>>]
    ELSE register_client(cl, client_id, S_unknown, t)

\* a faulty drain_outbound: last_poll is set only when requests are taken
drain_outbound_productive(cl, client_id, t) ==
    IF client_id \in DOMAIN cl /\ cl[client_id].outbound_queue # <<>>
    THEN [cl EXCEPT ![client_id].last_poll = t,
                    ![client_id].outbound_queue = <<>>]
    ELSE cl

\* a faulty drain_outbound: the queue is copied, not drained
drain_outbound_peek(cl, client_id, t) ==
    IF client_id \in DOMAIN cl
    THEN [cl EXCEPT ![client_id].last_poll = t]
    ELSE cl

\* SharedState::drain_outbound: the map afterwards
drain_outbound(cl, client_id, t) ==
    IF client_id \in DOMAIN cl
    THEN [cl EXCEPT ![client_id].last_poll = t,
                    ![client_id].outbound_queue = <<>>]
    ELSE cl

\* SharedState::pending_call_count
pending_call_count == Cardinality(pending_calls)

\* SharedState::first_client_id: the first key the HashMap iterates, any key
first_client_ids(cl) ==
    IF DOMAIN cl = {} THEN {None} ELSE {Some(k) : k \in DOMAIN cl}

\* a faulty counter: the value is read and not advanced
next_seq_same(seq) == seq

\* push_log under the log_seq lock: *seq += 1
next_seq(seq) == seq + 1

\* a faulty push_log: the head is dropped only once the buffer has outgrown
\* its capacity
push_log_over(buf, seq, t, level, message, session_id) ==
    LET entry == [seq |-> seq, ts |-> t, level |-> level,
                  message |-> message, session_id |-> session_id]
        room == IF Len(buf) > MAX_LOG_BUFFER THEN Tail(buf) ELSE buf
    IN  Append(room, entry)

\* SharedState::push_log: the buffer afterwards, given the seq it assigned
push_log(buf, seq, t, level, message, session_id) ==
    LET entry == [seq |-> seq, ts |-> t, level |-> level,
                  message |-> message, session_id |-> session_id]
        room == IF Len(buf) >= MAX_LOG_BUFFER THEN Tail(buf) ELSE buf
    IN  Append(room, entry)

\* SharedState::update_playtest
update_playtest(active, session_id, mode) ==
    [active |-> active, session_id |-> session_id, mode |-> mode]

\* PlaytestState::default
PlaytestState_default == [active |-> FALSE, session_id |-> None, mode |-> None]

\* ------------------------------------------------------------- types.rs

\* a faulty JsonRpcResponse::success: the id is not echoed
JsonRpcResponse_success_null_id(id, result) ==
    [id |-> None, result |-> Some(result), error |-> None]

\* JsonRpcResponse::success
JsonRpcResponse_success(id, result) ==
    [id |-> id, result |-> Some(result), error |-> None]

\* JsonRpcResponse::error
JsonRpcResponse_error(id, code, message) ==
    [id |-> id, result |-> None,
     error |-> Some([code |-> code, message |-> message])]

\* McpToolResult::text, with to_value
McpToolResult_text(text) ==
    [kind |-> "tool", text |-> text, isError |-> FALSE, data |-> None]

\* a faulty McpToolResult::error_text: is_error is left false
McpToolResult_error_text_plain(text) ==
    [kind |-> "tool", text |-> text, isError |-> FALSE, data |-> None]

\* McpToolResult::error_text, with to_value
McpToolResult_error_text(text) ==
    [kind |-> "tool", text |-> text, isError |-> TRUE, data |-> None]

\* a result that is not a tool result: json!({}) of ping, the initialize
\* object, the tools list
PlainResult(kind) ==
    [kind |-> kind, text |-> "", isError |-> FALSE, data |-> None]

\* ------------------------------------------------------------------ Init

\* the Mutex fields of Inner
Mutexes == {"clients", "pending_calls", "log_buffer", "log_seq",
            "playtest_state"}

\* the tasks of the runtime that reach the shared state: the stdio loop and
\* the handlers of two HTTP requests in progress
Tasks == {"stdio", "http1", "http2"}

\* no task: the Mutex is free
NoTask == "none"

\* handle_status_tool before its first read
NoStatus == [pc |-> "idle", id |-> 0, connected |-> FALSE, clientId |-> None,
             playtest |-> PlaytestState_default]

\* the writer task before its first recv
WriterIdle == [pc |-> "recv", received |-> 0, written |-> 0]

IdlePull == [pc |-> "idle", client_id |-> UnknownClient, deadline |-> 0,
             status |-> 0, body |-> <<>>]
NoCall == [id |-> 0, request_id |-> UnknownRequest, tool_name |-> "",
           deadline |-> 0]

Init ==
    /\ now = 0
    /\ clients = <<>>
    /\ next_client = 0
    /\ permit = [c \in ClientIds |-> FALSE]
    /\ waiters = [c \in ClientIds |-> <<>>]
    /\ pull = [h \in Handlers |-> IdlePull]
    /\ pending_calls = {}
    /\ next_request = 0
    /\ pc = "read"
    /\ call = NoCall
    /\ rx = None
    /\ lines = 0
    /\ stdout = <<>>
    /\ enqueued = [c \in ClientIds |-> <<>>]
    /\ drained = [c \in ClientIds |-> <<>>]
    /\ push_results = <<>>
    /\ issued = <<>>
    /\ delivered = <<>>
    /\ requests_read = {}
    /\ log_seq = 0
    /\ log_buffer = <<>>
    /\ playtest_state = PlaytestState_default
    /\ config = None
    /\ http_response = None
    /\ log_task = [p \in Pushers |-> None]
    /\ writer = WriterIdle
    /\ terminal = <<>>
    /\ mutex = [m \in Mutexes |-> NoTask]
    /\ running = [t \in Tasks |-> <<>>]
    /\ status_task = NoStatus

\* ------------------------------------------------------------ the clock

\* the deadlines of the timers that are armed
ArmedDeadlines ==
    {pull[h].deadline : h \in {g \in Handlers : pull[g].pc = "waiting"}}
    \cup (IF pc = "await" /\ rx = None THEN {call.deadline} ELSE {})

RECURSIVE SetMin(_)
SetMin(S) ==
    LET x == CHOOSE y \in S : TRUE
    IN  IF S = {x} THEN x ELSE Min(x, SetMin(S \ {x}))

\* Time passes: by Step, or up to the next deadline if that is sooner.
Tick(limit) ==
    /\ now < limit
    /\ \A d \in ArmedDeadlines : now < d
    /\ now' = SetMin({now + Step, limit} \cup ArmedDeadlines)
    /\ UNCHANGED <<http_vars, pending_calls, next_request, rx, stdio_vars,
                   event_vars, bridge_vars, history_vars>>

\* -------------------------------------------------------- bridge_http.rs

\* POST /register
handle_register(plugin_version) ==
    /\ LET client_id == next_client + 1
           version == IF plugin_version = S_empty THEN S_unknown
                      ELSE plugin_version
       IN  /\ next_client' = client_id
           /\ clients' = register_client(clients, client_id, version, now)
    /\ UNCHANGED <<now, permit, waiters, pull, pending_calls, next_request,
                   rx, stdio_vars, event_vars, bridge_vars, history_vars>>

\* the body of GET /status, as it would be answered from a registry cl
BridgeStatusResponse(cl) ==
    [connected_clients |-> Cardinality(DOMAIN cl),
     pending_calls |-> pending_call_count,
     log_buffer_size |-> Len(log_buffer),
     playtest_active |-> playtest_state.active]

\* GET /status: connected_client_count prunes
handle_status ==
    /\ clients' = prune_stale_clients(clients, now)
    /\ UNCHANGED <<now, next_client, permit, waiters, pull, pending_calls,
                   next_request, rx, stdio_vars, event_vars, bridge_vars, history_vars>>

\* a faulty notify_one: the waiter is taken off the list and not woken
notify_one_pull_none(key) == pull

\* Notify::notify_one: the longest-waiting task is woken, or, if none waits,
\* the permit is stored
notify_one_pull(key) ==
    IF waiters[key] # <<>>
    THEN [pull EXCEPT ![Head(waiters[key])].pc = "woken"]
    ELSE pull

notify_one_waiters(key) ==
    IF waiters[key] # <<>>
    THEN [waiters EXCEPT ![key] = Tail(@)]
    ELSE waiters

\* a faulty notify_one: a signal with no waiter present is dropped
notify_one_permit_lost(key) == permit

notify_one_permit(key) ==
    IF waiters[key] # <<>> THEN permit ELSE [permit EXCEPT ![key] = TRUE]

\* the client ids a plugin may put in a query string
KnownClientIds == 1..next_client

\* the handler h with its HTTP response ready to be sent
Respond(h, status, body) ==
    [pull EXCEPT ![h] = [pc |-> "done", client_id |-> pull[h].client_id,
                         deadline |-> 0, status |-> status, body |-> body]]

\* the drain history of client_id, extended by what a drain returned
Drained(client_id, requests) ==
    IF client_id \in ClientIds
    THEN [drained EXCEPT ![client_id] = @ \o requests]
    ELSE drained

\* GET /pull, to the end of its immediate drain
PullStart(h, client_id) ==
    /\ pull[h].pc = "idle"
    /\ LET requests == drain_requests(clients, client_id)
           started == [pull EXCEPT ![h].client_id = client_id]
       IN  /\ clients' = drain_outbound(clients, client_id, now)
           /\ drained' = Drained(client_id, requests)
           /\ pull' = IF requests # <<>>
                      THEN [started EXCEPT ![h].pc = "done",
                                           ![h].status = 200,
                                           ![h].body = requests]
                      ELSE [started EXCEPT ![h].pc = "get_notify"]
    /\ UNCHANGED <<now, next_client, permit, waiters, pending_calls,
                   next_request, rx, stdio_vars, event_vars, bridge_vars, enqueued,
                   push_results, issued, delivered, requests_read>>

\* GET /pull: get_notify, and the 404 when it yields None
PullGetNotify(h) ==
    /\ pull[h].pc = "get_notify"
    /\ pull' = IF pull[h].client_id \in DOMAIN clients
               THEN [pull EXCEPT ![h].pc = "poll"]
               ELSE Respond(h, 404, <<>>)
    /\ UNCHANGED <<now, clients, next_client, permit, waiters, pending_calls,
                   next_request, rx, stdio_vars, event_vars, bridge_vars, history_vars>>

\* GET /pull: the first poll of timeout(25 s, notify.notified()): a stored
\* permit is consumed, otherwise the task joins the waiters and its timer
\* is armed
PullPoll(h) ==
    /\ pull[h].pc = "poll"
    /\ LET c == pull[h].client_id
       IN  IF permit[c]
           THEN /\ permit' = [permit EXCEPT ![c] = FALSE]
                /\ pull' = [pull EXCEPT ![h].pc = "woken"]
                /\ waiters' = waiters
           ELSE /\ permit' = permit
                /\ pull' = [pull EXCEPT ![h].pc = "waiting",
                                        ![h].deadline = now + PULL_TIMEOUT]
                /\ waiters' = [waiters EXCEPT ![c] = Append(@, h)]
    /\ UNCHANGED <<now, clients, next_client, pending_calls, next_request,
                   rx, stdio_vars, event_vars, bridge_vars, history_vars>>

\* GET /pull: the Ok(_) arm, the drain after the wakeup
PullWoken(h) ==
    /\ pull[h].pc = "woken"
    /\ LET c == pull[h].client_id
           requests == drain_requests(clients, c)
       IN  /\ clients' = drain_outbound(clients, c, now)
           /\ drained' = Drained(c, requests)
           /\ pull' = Respond(h, 200, requests)
    /\ UNCHANGED <<now, next_client, permit, waiters, pending_calls,
                   next_request, rx, stdio_vars, event_vars, bridge_vars, enqueued,
                   push_results, issued, delivered, requests_read>>

\* GET /pull: the Err(_) arm, the 25 s have elapsed
PullTimeout(h) ==
    /\ pull[h].pc = "waiting"
    /\ now >= pull[h].deadline
    /\ waiters' = [waiters EXCEPT ![pull[h].client_id] =
                      SelectSeq(@, LAMBDA g : g # h)]
    /\ pull' = Respond(h, 200, <<>>)
    /\ UNCHANGED <<now, clients, next_client, permit, pending_calls,
                   next_request, rx, stdio_vars, event_vars, bridge_vars, history_vars>>

\* the HTTP response of a /pull has been sent and its task ends
PullDone(h) ==
    /\ pull[h].pc = "done"
    /\ pull' = [pull EXCEPT ![h] = IdlePull]
    /\ UNCHANGED <<now, clients, next_client, permit, waiters, pending_calls,
                   next_request, rx, stdio_vars, event_vars, bridge_vars, history_vars>>

\* the receiver of request_id's oneshot channel exists: handle_tools_call
\* has created the channel and has not returned
ReceiverAlive(request_id) ==
    /\ pc \in {"enqueue", "await"}
    /\ call.request_id = request_id

\* a faulty resolve_pending: get in place of remove
resolve_pending_keep(pend, r, response) ==
    IF response.request_id \in pend
    THEN [pending |-> pend,
          rx |-> IF ReceiverAlive(response.request_id)
                 THEN Some(response) ELSE r,
          found |-> TRUE]
    ELSE [pending |-> pend, rx |-> r, found |-> FALSE]

\* a faulty resolve_pending: the sender is taken out and dropped unsent
resolve_pending_drop(pend, r, response) ==
    IF response.request_id \in pend
    THEN [pending |-> pend \ {response.request_id}, rx |-> r, found |-> TRUE]
    ELSE [pending |-> pend, rx |-> r, found |-> FALSE]

\* SharedState::resolve_pending on a table pend and a receiver content r:
\* the table and the receiver afterwards, and what it returns
resolve_pending(pend, r, response) ==
    IF response.request_id \in pend
    THEN [pending |-> pend \ {response.request_id},
          rx |-> IF ReceiverAlive(response.request_id)
                 THEN Some(response) ELSE r,
          found |-> TRUE]
    ELSE [pending |-> pend, rx |-> r, found |-> FALSE]

\* the loop over body.responses of handle_push; results are the values the
\* calls of resolve_pending returned, del is the history delivered
RECURSIVE resolve_all(_, _, _, _, _)
resolve_all(pend, r, responses, results, del) ==
    IF responses = <<>>
    THEN [pending |-> pend, rx |-> r, results |-> results, delivered |-> del]
    ELSE LET response == Head(responses)
             one == resolve_pending(pend, r, response)
         IN  resolve_all(one.pending, one.rx, Tail(responses),
                         Append(results,
                                [request_id |-> response.request_id,
                                 resolved |-> one.found]),
                         IF one.found /\ ReceiverAlive(response.request_id)
                         THEN [del EXCEPT ![response.request_id] = Some(response)]
                         ELSE del)

\* data.get(key).and_then(|v| v.as_str()) on the field of an event's data,
\* absent or a JSON value: the string, or None for any other value
get_str(field) ==
    IF IsSome(field) /\ Unwrap(field).t = "string"
    THEN Some(Unwrap(field).s) ELSE None

\* data.get(key).and_then(|v| v.as_bool())
get_bool(field) ==
    IF IsSome(field) /\ Unwrap(field).t = "bool"
    THEN Some(Unwrap(field).b) ELSE None

\* Option::unwrap_or
unwrap_or(o, default) == IF IsSome(o) THEN Unwrap(o) ELSE default

\* a faulty handle_event: a field that the event does not carry keeps its
\* value
handle_event_merge(st, event, t) ==
    IF event.event_type = "studio.log"
    THEN LET level == unwrap_or(get_str(event.data.level), "output")
             message == unwrap_or(get_str(event.data.message), "")
         IN  [st EXCEPT !.log_seq = next_seq(@),
                        !.log_buffer = push_log(@, next_seq(st.log_seq), t,
                                                level, message,
                                                get_str(event.data.sessionId))]
    ELSE IF event.event_type = "studio.playtest_state"
    THEN LET active == unwrap_or(get_bool(event.data.active),
                                 st.playtest_state.active)
             session_id == IF IsSome(get_str(event.data.sessionId))
                           THEN get_str(event.data.sessionId)
                           ELSE st.playtest_state.session_id
             mode == IF IsSome(get_str(event.data.mode))
                     THEN get_str(event.data.mode)
                     ELSE st.playtest_state.mode
         IN  [st EXCEPT !.playtest_state =
                 update_playtest(active, session_id, mode)]
    ELSE st

\* handle_event on a state st = [log_seq, log_buffer, playtest_state]
handle_event(st, event, t) ==
    IF event.event_type = "studio.log"
    THEN LET level == unwrap_or(get_str(event.data.level), "output")
             message == unwrap_or(get_str(event.data.message), "")
         IN  [st EXCEPT !.log_seq = next_seq(@),
                        !.log_buffer = push_log(@, next_seq(st.log_seq), t,
                                                level, message,
                                                get_str(event.data.sessionId))]
    ELSE IF event.event_type = "studio.playtest_state"
    THEN LET active == unwrap_or(get_bool(event.data.active), FALSE)
         IN  [st EXCEPT !.playtest_state =
                 update_playtest(active, get_str(event.data.sessionId),
                                 get_str(event.data.mode))]
    ELSE st

\* Ok(Json(json!({ "ok": true }))) of handle_push
Json_ok == [route |-> "/push", status |-> 200, body |-> "{\"ok\":true}"]

\* a faulty loop over body.events: it ends at the first event of a type
\* that handle_event does not know
RECURSIVE handle_events_until_unknown(_, _, _)
handle_events_until_unknown(st, events, t) ==
    IF events = <<>> THEN st
    ELSE IF Head(events).event_type \notin
                {"studio.log", "studio.playtest_state", "studio.capture"}
    THEN st
    ELSE handle_events_until_unknown(handle_event(st, Head(events), t),
                                     Tail(events), t)

\* the loop over body.events of handle_push
RECURSIVE handle_events(_, _, _)
handle_events(st, events, t) ==
    IF events = <<>> THEN st
    ELSE handle_events(handle_event(st, Head(events), t), Tail(events), t)

\* a faulty handle_push: the responses of a clientId that is not registered
\* are ignored
handle_push_registered(client_id, responses, events) ==
    /\ LET res == resolve_all(pending_calls, rx,
                              IF client_id \in DOMAIN clients
                              THEN responses ELSE <<>>,
                              <<>>, delivered)
           st == handle_events([log_seq |-> log_seq,
                                log_buffer |-> log_buffer,
                                playtest_state |-> playtest_state],
                               events, now)
       IN  /\ pending_calls' = res.pending
           /\ rx' = res.rx
           /\ delivered' = res.delivered
           /\ push_results' = res.results
           /\ log_seq' = st.log_seq
           /\ log_buffer' = st.log_buffer
           /\ playtest_state' = st.playtest_state
    /\ http_response' = Some(Json_ok)
    /\ UNCHANGED <<now, http_vars, next_request, stdio_vars, enqueued, drained,
                   issued, requests_read, config, log_task, writer_vars,
                   task_vars>>

\* POST /push?clientId=client_id with body {responses, events}
handle_push(client_id, responses, events) ==
    /\ LET res == resolve_all(pending_calls, rx, responses, <<>>, delivered)
           st == handle_events([log_seq |-> log_seq,
                                log_buffer |-> log_buffer,
                                playtest_state |-> playtest_state],
                               events, now)
       IN  /\ pending_calls' = res.pending
           /\ rx' = res.rx
           /\ delivered' = res.delivered
           /\ push_results' = res.results
           /\ log_seq' = st.log_seq
           /\ log_buffer' = st.log_buffer
           /\ playtest_state' = st.playtest_state
    /\ http_response' = Some(Json_ok)
    /\ UNCHANGED <<now, http_vars, next_request, stdio_vars, enqueued, drained,
                   issued, requests_read, config, log_task, writer_vars,
                   task_vars>>

\* the request ids a plugin may put in a response: a request id is a fresh
\* uuid, which a plugin knows only from the body of a /pull
KnownRequestIds ==
    {UnknownRequest}
    \cup UNION {{drained[c][i].request_id : i \in 1..Len(drained[c])}
                : c \in ClientIds}

\* what a plugin may answer
ResponseBodies ==
    {[success |-> TRUE, result |-> Some(JString("1")), error |-> None],
     [success |-> TRUE, result |-> Some(JBool(TRUE)), error |-> None],
     [success |-> TRUE, result |-> None, error |-> None],
     [success |-> FALSE, result |-> None, error |-> Some("boom")],
     [success |-> FALSE, result |-> None, error |-> None]}

BridgeToolResponse(request_id, b) ==
    [request_id |-> request_id, success |-> b.success,
     result |-> b.result, error |-> b.error]

\* the answers that carry neither a result nor an error text
BareBodies ==
    {b \in ResponseBodies : b.result = None /\ b.error = None}

\* the answers that carry a result or an error text
PayloadBodies == ResponseBodies \ BareBodies

\* a faulty check_auth: a request without the header is let through
check_auth_lenient(authorization, token) ==
    IF ~IsSome(token) THEN TRUE
    ELSE IF ~IsSome(authorization) THEN TRUE
    ELSE Unwrap(authorization) = "Bearer " \o Unwrap(token)

\* check_auth on the Authorization header of a request, absent or present:
\* TRUE for Ok(()), FALSE for the 401
check_auth(authorization, token) ==
    IF ~IsSome(token) THEN TRUE
    ELSE LET auth == IF IsSome(authorization)
                     THEN Unwrap(authorization) ELSE ""
             expected == "Bearer " \o Unwrap(token)
         IN  auth = expected

\* the ? after check_auth: the handler of route returns the 401 at once
Unauthorized(route, authorization) ==
    /\ http_response' =
           Some([route |-> route, authorization |-> authorization,
                 status |-> 401,
                 body |-> "Invalid or missing Authorization header"])
    /\ UNCHANGED <<now, http_vars, pending_calls, next_request, rx,
                   stdio_vars, event_vars, history_vars, config, log_task,
                   writer_vars, task_vars>>

\* a handler that begins with check_auth(&headers, &app.config)?
Authenticated(route, authorization, handler) ==
    IF check_auth(authorization, config)
    THEN handler
    ELSE Unauthorized(route, authorization)

\* GET /health: no check_auth, no access to the shared state
handle_health ==
    /\ http_response' =
           Some([route |-> "/health", authorization |-> None,
                 status |-> 200, body |-> "ok"])
    /\ UNCHANGED <<now, http_vars, pending_calls, next_request, rx,
                   stdio_vars, event_vars, history_vars, config, log_task,
                   writer_vars, task_vars>>

\* ---------------------------------------------------------- mcp_stdio.rs

\* tx.send(serialized): the writer task writes the lines in this order
Write(response) == stdout' = Append(stdout, response)

\* The writer task of run.  stdout is the channel's history: the lines sent
\* so far, of which the writer has received the first writer.received.  A
\* write_all may take several write calls: a line goes out in LineChunks
\* pieces, terminal holding [line, part] for each piece and part 0 for the
\* newline.

\* a faulty writer: it takes the next line before the line in hand is done
WriterRecv_eager ==
    /\ writer.received < Len(stdout)
    /\ writer' = [pc |-> "line", received |-> writer.received + 1,
                  written |-> 0]
    /\ UNCHANGED <<now, http_vars, pending_calls, next_request, rx, stdio_vars,
                   event_vars, config, http_response, log_task, terminal,
                   task_vars, history_vars>>

\* rx.recv().await returns the next line
WriterRecv ==
    /\ writer.pc = "recv"
    /\ writer.received < Len(stdout)
    /\ writer' = [pc |-> "line", received |-> writer.received + 1,
                  written |-> 0]
    /\ UNCHANGED <<now, http_vars, pending_calls, next_request, rx, stdio_vars,
                   event_vars, config, http_response, log_task, terminal,
                   task_vars, history_vars>>

\* stdout.write_all(line.as_bytes()): one write call
WriterLine ==
    /\ writer.pc = "line"
    /\ terminal' = Append(terminal, [line |-> writer.received,
                                     part |-> writer.written + 1])
    /\ writer' = [writer EXCEPT !.written = @ + 1,
                                !.pc = IF writer.written + 1 = LineChunks
                                       THEN "newline" ELSE "line"]
    /\ UNCHANGED <<now, http_vars, pending_calls, next_request, rx, stdio_vars,
                   event_vars, config, http_response, log_task, task_vars,
                   history_vars>>

\* stdout.write_all(b"\n")
WriterNewline ==
    /\ writer.pc = "newline"
    /\ terminal' = Append(terminal, [line |-> writer.received, part |-> 0])
    /\ writer' = [writer EXCEPT !.pc = "flush"]
    /\ UNCHANGED <<now, http_vars, pending_calls, next_request, rx, stdio_vars,
                   event_vars, config, http_response, log_task, task_vars,
                   history_vars>>

\* stdout.flush(), and back to recv
WriterFlush ==
    /\ writer.pc = "flush"
    /\ writer' = [writer EXCEPT !.pc = "recv"]
    /\ UNCHANGED <<now, http_vars, pending_calls, next_request, rx, stdio_vars,
                   event_vars, config, http_response, log_task, terminal,
                   task_vars, history_vars>>

\* the JSON-RPC id of the line being read: the caller numbers its messages
LineId == lines + 1

\* a faulty run: the parse failure is answered and ends the loop
ReadParseError_abort ==
    /\ pc = "read"
    /\ lines < MaxLines
    /\ lines' = LineId
    /\ Write(JsonRpcResponse_error(None, -32700,
                                   "Parse error: expected value at line 1 column 1"))
    /\ pc' = "closed"
    /\ UNCHANGED <<now, http_vars, pending_calls, next_request, call, rx,
                   event_vars, bridge_vars, history_vars>>

\* run: a non-empty line that serde_json cannot parse
ReadParseError ==
    /\ pc = "read"
    /\ lines < MaxLines
    /\ lines' = LineId
    /\ Write(JsonRpcResponse_error(None, -32700,
                                   "Parse error: expected value at line 1 column 1"))
    /\ UNCHANGED <<now, http_vars, pending_calls, next_request, pc, call, rx,
                   event_vars, bridge_vars, history_vars>>

\* the methods of the messages without id; any method is taken as a
\* notification then, tools/call too
NotificationMethods ==
    {"notifications/initialized", "notifications/cancelled",
     "notifications/progress", "tools/call"}

\* a faulty handle_notification: notifications/cancelled drops the pending
\* entries
ReadNotification_cancel(method) ==
    /\ pc = "read"
    /\ lines < MaxLines
    /\ lines' = LineId
    /\ pending_calls' = IF method = "notifications/cancelled" THEN {}
                        ELSE pending_calls
    /\ UNCHANGED <<now, http_vars, next_request, pc, call, rx,
                   stdout, event_vars, bridge_vars, history_vars>>

\* run and handle_notification: a message without id
ReadNotification(method) ==
    /\ pc = "read"
    /\ lines < MaxLines
    /\ lines' = LineId
    /\ UNCHANGED <<now, http_vars, pending_calls, next_request, pc, call, rx,
                   stdout, event_vars, bridge_vars, history_vars>>

RequestMethods == {"initialize", "ping", "tools/list", "resources/list"}

\* handle_request, the arms other than tools/call
handle_request(id, method) ==
    IF method = "initialize"
    THEN JsonRpcResponse_success(id, PlainResult("initialize"))
    ELSE IF method = "ping"
    THEN JsonRpcResponse_success(id, PlainResult("empty"))
    ELSE IF method = "tools/list"
    THEN JsonRpcResponse_success(id, PlainResult("tools"))
    ELSE JsonRpcResponse_error(id, -32601, "Method not found: " \o method)

\* run: a request that handle_request answers by itself
ReadRequest(method) ==
    /\ pc = "read"
    /\ lines < MaxLines
    /\ lines' = LineId
    /\ requests_read' = requests_read \cup {LineId}
    /\ Write(handle_request(Some(LineId), method))
    /\ UNCHANGED <<now, http_vars, pending_calls, next_request, pc, call, rx,
                   event_vars, bridge_vars, enqueued, drained, push_results, issued,
                   delivered>>

\* handle_tools_call: params without a string "name"
ReadToolsCallNoName ==
    /\ pc = "read"
    /\ lines < MaxLines
    /\ lines' = LineId
    /\ requests_read' = requests_read \cup {LineId}
    /\ Write(JsonRpcResponse_error(Some(LineId), -32602,
                                   "Missing 'name' in tools/call params"))
    /\ UNCHANGED <<now, http_vars, pending_calls, next_request, pc, call, rx,
                   event_vars, bridge_vars, enqueued, drained, push_results, issued,
                   delivered>>

\* a faulty handle_status_tool: an error result while no client is connected
handle_status_tool_needs_client(id, cl, first) ==
    JsonRpcResponse_success(id,
        [kind |-> "tool", text |-> "status", isError |-> DOMAIN cl = {},
         data |-> Some([connected |-> DOMAIN cl # {},
                        clientId |-> first,
                        clients |-> {[clientId |-> k,
                                      isBridge |-> is_playtest_bridge(cl[k])]
                                     : k \in DOMAIN cl},
                        playtest |-> playtest_state])])

\* handle_status_tool: has_connected_client prunes, then the registry is
\* read.  Of each client the id and the classification are kept.
handle_status_tool(id, cl, first) ==
    JsonRpcResponse_success(id,
        [kind |-> "tool", text |-> "status", isError |-> FALSE,
         data |-> Some([connected |-> DOMAIN cl # {},
                        clientId |-> first,
                        clients |-> {[clientId |-> k,
                                      isBridge |-> is_playtest_bridge(cl[k])]
                                     : k \in DOMAIN cl},
                        playtest |-> playtest_state])])

\* tools/call for studio-status
ReadStatusTool ==
    /\ pc = "read"
    /\ lines < MaxLines
    /\ lines' = LineId
    /\ requests_read' = requests_read \cup {LineId}
    /\ clients' = prune_stale_clients(clients, now)
    /\ \E first \in first_client_ids(clients') :
           Write(handle_status_tool(Some(LineId), clients', first))
    /\ UNCHANGED <<now, next_client, permit, waiters, pull, pending_calls,
                   next_request, pc, call, rx, event_vars, bridge_vars, enqueued, drained,
                   push_results, issued, delivered>>

\* The awaits of handle_status_tool one by one, each under its own guard of
\* the clients or playtest_state lock, so that an HTTP handler can run
\* between two of them; status_task holds what has been read so far.
\* ReadStatusTool is the five steps with no step of another task in between.

\* the result of handle_status_tool from the values it has read
status_tool_result(id, connected, client_id, playtest, cl) ==
    JsonRpcResponse_success(id,
        [kind |-> "tool", text |-> "status", isError |-> FALSE,
         data |-> Some([connected |-> connected,
                        clientId |-> client_id,
                        clients |-> {[clientId |-> k,
                                      isBridge |-> is_playtest_bridge(cl[k])]
                                     : k \in DOMAIN cl},
                        playtest |-> playtest])])

\* tools/call for studio-status, to the end of the prune_stale_clients of
\* has_connected_client
StatusToolPrune ==
    /\ pc = "read"
    /\ lines < MaxLines
    /\ lines' = LineId
    /\ requests_read' = requests_read \cup {LineId}
    /\ clients' = prune_stale_clients(clients, now)
    /\ pc' = "status"
    /\ status_task' = [NoStatus EXCEPT !.pc = "is_empty", !.id = LineId]
    /\ UNCHANGED <<now, next_client, permit, waiters, pull, pending_calls,
                   next_request, call, rx, stdout, event_vars, config,
                   http_response, log_task, writer_vars, mutex, running,
                   enqueued, drained, push_results, issued, delivered>>

\* has_connected_client: !clients.lock().await.is_empty()
StatusToolConnected ==
    /\ pc = "status"
    /\ status_task.pc = "is_empty"
    /\ status_task' = [status_task EXCEPT !.pc = "first_client_id",
                                          !.connected = DOMAIN clients # {}]
    /\ UNCHANGED <<now, http_vars, pending_calls, next_request, rx, stdio_vars,
                   event_vars, config, http_response, log_task, writer_vars,
                   mutex, running, history_vars>>

\* first_client_id
StatusToolFirst ==
    /\ pc = "status"
    /\ status_task.pc = "first_client_id"
    /\ \E first \in first_client_ids(clients) :
           status_task' = [status_task EXCEPT !.pc = "playtest_info",
                                              !.clientId = first]
    /\ UNCHANGED <<now, http_vars, pending_calls, next_request, rx, stdio_vars,
                   event_vars, config, http_response, log_task, writer_vars,
                   mutex, running, history_vars>>

\* playtest_info
StatusToolPlaytest ==
    /\ pc = "status"
    /\ status_task.pc = "playtest_info"
    /\ status_task' = [status_task EXCEPT !.pc = "client_info",
                                          !.playtest = playtest_state]
    /\ UNCHANGED <<now, http_vars, pending_calls, next_request, rx, stdio_vars,
                   event_vars, config, http_response, log_task, writer_vars,
                   mutex, running, history_vars>>

\* client_info, and the result is returned
StatusToolInfo ==
    /\ pc = "status"
    /\ status_task.pc = "client_info"
    /\ Write(status_tool_result(Some(status_task.id), status_task.connected,
                                status_task.clientId, status_task.playtest,
                                clients))
    /\ pc' = "read"
    /\ status_task' = NoStatus
    /\ UNCHANGED <<now, http_vars, pending_calls, next_request, call, rx,
                   lines, event_vars, config, http_response, log_task,
                   writer_vars, mutex, running, history_vars>>

\* the disabled_reason match of handle_tools_call
disabled_reason(tool_name) ==
    IF tool_name = "studio-capture_screenshot"
    THEN Some("Unsupported: CaptureService returns rbxtemp:// content IDs that cannot be extracted as files from a plugin.")
    ELSE IF tool_name \in {"studio-capture_video_start",
                           "studio-capture_video_stop"}
    THEN Some("Unsupported: CaptureService does not expose a video recording API.")
    ELSE None

DisabledTools ==
    {"studio-capture_screenshot", "studio-capture_video_start",
     "studio-capture_video_stop"}

\* tools/call for a disabled tool
ReadDisabledTool(tool_name) ==
    /\ pc = "read"
    /\ lines < MaxLines
    /\ IsSome(disabled_reason(tool_name))
    /\ lines' = LineId
    /\ requests_read' = requests_read \cup {LineId}
    /\ Write(JsonRpcResponse_success(Some(LineId),
                 McpToolResult_error_text(Unwrap(disabled_reason(tool_name)))))
    /\ UNCHANGED <<now, http_vars, pending_calls, next_request, pc, call, rx,
                   event_vars, bridge_vars, enqueued, drained, push_results, issued,
                   delivered>>

\* tools/call for any other tool, to the end of has_connected_client
ReadPluginTool(tool_name) ==
    /\ pc = "read"
    /\ lines < MaxLines
    /\ tool_name # "studio-status"
    /\ ~IsSome(disabled_reason(tool_name))
    /\ lines' = LineId
    /\ requests_read' = requests_read \cup {LineId}
    /\ clients' = prune_stale_clients(clients, now)
    /\ IF DOMAIN clients' = {}
       THEN /\ Write(JsonRpcResponse_success(Some(LineId),
                 McpToolResult_error_text("No Roblox Studio plugin connected. Install the plugin and click Connect.")))
            /\ UNCHANGED <<pc, call>>
       ELSE /\ pc' = "register"
            /\ call' = [id |-> LineId, request_id |-> UnknownRequest,
                        tool_name |-> tool_name, deadline |-> 0]
            /\ stdout' = stdout
    /\ UNCHANGED <<now, next_client, permit, waiters, pull, pending_calls,
                   next_request, rx, event_vars, bridge_vars, enqueued, drained,
                   push_results, issued, delivered>>

\* a faulty handle_tools_call: the sender is not stored before the enqueue
CallRegister_late ==
    /\ pc = "register"
    /\ LET request_id == next_request + 1
       IN  /\ next_request' = request_id
           /\ pending_calls' = pending_calls
           /\ call' = [call EXCEPT !.request_id = request_id]
           /\ issued' = Append(issued, [id |-> call.id,
                                        tool_name |-> call.tool_name])
           /\ delivered' = Append(delivered, None)
    /\ pc' = "enqueue"
    /\ UNCHANGED <<now, http_vars, rx, lines, stdout, event_vars, bridge_vars, enqueued,
                   drained, push_results, requests_read>>

\* handle_tools_call: the request id is minted, the channel created and its
\* sender stored by register_pending
CallRegister ==
    /\ pc = "register"
    /\ LET request_id == next_request + 1
       IN  /\ next_request' = request_id
           /\ pending_calls' = pending_calls \cup {request_id}
           /\ call' = [call EXCEPT !.request_id = request_id]
           /\ issued' = Append(issued, [id |-> call.id,
                                        tool_name |-> call.tool_name])
           /\ delivered' = Append(delivered, None)
    /\ pc' = "enqueue"
    /\ UNCHANGED <<now, http_vars, rx, lines, stdout, event_vars, bridge_vars, enqueued,
                   drained, push_results, requests_read>>

BridgeToolRequest(request_id, tool_name) ==
    [request_id |-> request_id, tool_name |-> tool_name, arguments |-> "{}"]

\* handle_tools_call: enqueue_tool_request, and the timer of the await
CallEnqueue ==
    /\ pc = "enqueue"
    /\ \E out \in enqueue_tool_request(clients,
                      BridgeToolRequest(call.request_id, call.tool_name)) :
        IF ~out.ok
        THEN /\ Write(JsonRpcResponse_success(Some(call.id),
                  McpToolResult_error_text("Failed to enqueue tool request to plugin")))
             /\ pc' = "read"
             /\ call' = NoCall
             /\ rx' = None
             /\ UNCHANGED <<http_vars, enqueued>>
        ELSE /\ clients' = out.clients
             /\ pull' = notify_one_pull(out.key)
             /\ waiters' = notify_one_waiters(out.key)
             /\ permit' = notify_one_permit(out.key)
             /\ enqueued' = [enqueued EXCEPT ![out.key] =
                                Append(@, BridgeToolRequest(call.request_id,
                                                            call.tool_name))]
             /\ pc' = "await"
             /\ call' = [call EXCEPT !.deadline = now + TOOL_CALL_TIMEOUT]
             /\ UNCHANGED <<next_client, rx, stdout>>
    /\ UNCHANGED <<now, pending_calls, next_request, lines, event_vars, bridge_vars,
                   drained, push_results, issued, delivered, requests_read>>

\* a faulty reply text: every result is pretty-printed, strings too
reply_text_pretty(response) ==
    IF IsSome(response.result)
    THEN to_string_pretty(Unwrap(response.result))
    ELSE "ok"

\* the text of a fulfilled reply
reply_text(response) ==
    IF IsSome(response.result)
    THEN IF Unwrap(response.result).t = "string"
         THEN Unwrap(response.result).s
         ELSE to_string_pretty(Unwrap(response.result))
    ELSE "ok"

\* a faulty timeout text: the tool is not named
timeout_text_no_tool(tool_name) ==
    "Tool call timed out after "
    \o ToString(TOOL_CALL_TIMEOUT) \o "s. Is the Studio plugin running?"

timeout_text(tool_name) ==
    "Tool call '" \o tool_name \o "' timed out after "
    \o ToString(TOOL_CALL_TIMEOUT) \o "s. Is the Studio plugin running?"

\* a faulty await: the timer fires at once
await_outcome_early ==
    IF IsSome(rx) THEN "resolved"
    ELSE IF call.request_id \notin pending_calls THEN "disconnected"
    ELSE "timed_out"

\* how the match on timeout(TOOL_CALL_TIMEOUT, rx) comes out: the receiver
\* is polled before the timer
await_outcome ==
    IF IsSome(rx) THEN "resolved"
    ELSE IF call.request_id \notin pending_calls THEN "disconnected"
    ELSE IF now >= call.deadline THEN "timed_out"
    ELSE "waiting"

\* the McpToolResult of each arm of the match
await_result(outcome) ==
    IF outcome = "resolved"
    THEN IF Unwrap(rx).success
         THEN McpToolResult_text(reply_text(Unwrap(rx)))
         ELSE McpToolResult_error_text(
                  IF IsSome(Unwrap(rx).error) THEN Unwrap(Unwrap(rx).error)
                  ELSE "Unknown plugin error")
    ELSE IF outcome = "disconnected"
    THEN McpToolResult_error_text("Plugin disconnected while processing tool call")
    ELSE McpToolResult_error_text(timeout_text(call.tool_name))

\* handle_tools_call: the await ends and the reply is written
CallReturn ==
    /\ pc = "await"
    /\ await_outcome # "waiting"
    /\ Write(JsonRpcResponse_success(Some(call.id), await_result(await_outcome)))
    /\ pc' = "read"
    /\ call' = NoCall
    /\ rx' = None
    /\ UNCHANGED <<now, http_vars, pending_calls, next_request, lines,
                   event_vars, bridge_vars, history_vars>>

\* ------------------------------------------------------------------ Next

\* the steps of a /pull handler
Pull(h) ==
    \/ \E c \in {UnknownClient} \cup KnownClientIds : PullStart(h, c)
    \/ PullGetNotify(h)
    \/ PullPoll(h)
    \/ PullWoken(h)
    \/ PullTimeout(h)
    \/ PullDone(h)

\* the steps of handle_tools_call after has_connected_client
Call ==
    \/ CallRegister
    \/ CallEnqueue
    \/ CallReturn

\* The round trip: one plugin registers, pulls and pushes; the caller issues
\* tools/call for a plugin tool.
Next ==
    \/ Tick(MaxTime)
    \/ next_client < MaxClients /\ handle_register(S_empty)
    \/ handle_status
    \/ \E h \in Pollers : Pull(h)
    \/ \E r \in KnownRequestIds, b \in PayloadBodies :
           handle_push(UnknownClient, <<BridgeToolResponse(r, b)>>, <<>>)
    \/ ReadPluginTool("studio-run_script")
    \/ Call

Spec == Init /\ [][Next]_vars

\* The stdio loop: every kind of line, with a plugin that registers, goes
\* stale, and answers or does not.
NextStdio ==
    \/ Tick(MaxTimeStdio)
    \/ next_client < MaxClients /\ handle_register(S_1_0)
    \/ handle_status
    \/ \E h \in Pollers : Pull(h)
    \/ \E r \in KnownRequestIds, b \in BareBodies :
           handle_push(UnknownClient, <<BridgeToolResponse(r, b)>>, <<>>)
    \/ ReadParseError
    \/ \E m \in NotificationMethods : ReadNotification(m)
    \/ \E m \in RequestMethods : ReadRequest(m)
    \/ ReadToolsCallNoName
    \/ ReadStatusTool
    \/ \E t \in DisabledTools : ReadDisabledTool(t)
    \/ ReadPluginTool("studio-virtualuser_key")
    \/ Call

SpecStdio == Init /\ [][NextStdio]_vars

\* Routing: the tool calls of a caller against every registry of up to
\* MaxRegistry clients that have polled at times up to MaxPoll; GET /status
\* prunes the clients that have gone stale meanwhile.
RegistryVersions == {S_unknown, S_1_0_playtest, S_play_test}

Registries ==
    UNION {[ids -> [plugin_version : RegistryVersions,
                    outbound_queue : {<<>>},
                    last_poll : 0..MaxPoll]]
           : ids \in SUBSET (1..MaxRegistry)}

RoutedTools ==
    {"studio-run_script", "studio-virtualuser_key", "studio-playtest_stop"}

InitRoute ==
    /\ now = MaxPoll
    /\ clients \in Registries
    /\ next_client = MaxRegistry
    /\ permit = [c \in ClientIds |-> FALSE]
    /\ waiters = [c \in ClientIds |-> <<>>]
    /\ pull = [h \in Handlers |-> IdlePull]
    /\ pending_calls = {}
    /\ next_request = 0
    /\ pc = "read"
    /\ call = NoCall
    /\ rx = None
    /\ lines = 0
    /\ stdout = <<>>
    /\ enqueued = [c \in ClientIds |-> <<>>]
    /\ drained = [c \in ClientIds |-> <<>>]
    /\ push_results = <<>>
    /\ issued = <<>>
    /\ delivered = <<>>
    /\ requests_read = {}
    /\ log_seq = 0
    /\ log_buffer = <<>>
    /\ playtest_state = PlaytestState_default
    /\ config = None
    /\ http_response = None
    /\ log_task = [p \in Pushers |-> None]
    /\ writer = WriterIdle
    /\ terminal = <<>>
    /\ mutex = [m \in Mutexes |-> NoTask]
    /\ running = [t \in Tasks |-> <<>>]
    /\ status_task = NoStatus

NextRoute ==
    \/ Tick(MaxTimeStdio)
    \/ handle_status
    \/ ReadStatusTool
    \/ \E t \in RoutedTools : ReadPluginTool(t)
    \/ Call

SpecRoute == InitRoute /\ [][NextRoute]_vars

\* Authentication: a server with or without a token; every request carries
\* no Authorization header, the right one or a wrong one.
Token == "s3cret"

\* no header, the right header, and the token without its "Bearer " prefix
Authorizations == {None, Some("Bearer " \o Token), Some(Token)}

InitAuth ==
    /\ now = 0
    /\ clients = <<>>
    /\ next_client = 0
    /\ permit = [c \in ClientIds |-> FALSE]
    /\ waiters = [c \in ClientIds |-> <<>>]
    /\ pull = [h \in Handlers |-> IdlePull]
    /\ pending_calls = {}
    /\ next_request = 0
    /\ pc = "read"
    /\ call = NoCall
    /\ rx = None
    /\ lines = 0
    /\ stdout = <<>>
    /\ enqueued = [c \in ClientIds |-> <<>>]
    /\ drained = [c \in ClientIds |-> <<>>]
    /\ push_results = <<>>
    /\ issued = <<>>
    /\ delivered = <<>>
    /\ requests_read = {}
    /\ log_seq = 0
    /\ log_buffer = <<>>
    /\ playtest_state = PlaytestState_default
    /\ config \in {None, Some(Token)}
    /\ http_response = None
    /\ log_task = [p \in Pushers |-> None]
    /\ writer = WriterIdle
    /\ terminal = <<>>
    /\ mutex = [m \in Mutexes |-> NoTask]
    /\ running = [t \in Tasks |-> <<>>]
    /\ status_task = NoStatus

\* the steps of a /pull handler after its check_auth and immediate drain
PullRest(h) ==
    \/ PullGetNotify(h)
    \/ PullPoll(h)
    \/ PullWoken(h)
    \/ PullTimeout(h)
    \/ PullDone(h)

\* the caller issues one tool call
ReadAuth ==
    /\ lines = 0
    /\ ReadPluginTool("studio-run_script")

\* the requests to the routes that begin with check_auth
RegisterRequest(a) ==
    Authenticated("/register", a,
        next_client < MaxClients /\ handle_register(S_1_0))

StatusRequest(a) == Authenticated("/status", a, handle_status)

PullRequest(a) ==
    \E h \in Pollers, c \in KnownClientIds :
        Authenticated("/pull", a, PullStart(h, c))

PushRequest(a) ==
    \E r \in KnownRequestIds, b \in BareBodies :
        Authenticated("/push", a,
            handle_push(UnknownClient, <<BridgeToolResponse(r, b)>>, <<>>))

NextAuth ==
    \/ Tick(MaxTimeStdio)
    \/ \E a \in Authorizations : RegisterRequest(a)
    \/ \E a \in Authorizations : StatusRequest(a)
    \/ \E a \in Authorizations : PullRequest(a)
    \/ \E h \in Pollers : PullRest(h)
    \/ \E a \in Authorizations : PushRequest(a)
    \/ handle_health
    \/ ReadAuth
    \/ Call

SpecAuth == InitAuth /\ [][NextAuth]_vars

\* Termination: the round trip with a clock that stops only when the call in
\* progress can still reach its deadline.  The runtime runs a task that is
\* ready and fires a timer whose deadline has passed.
TickLive ==
    /\ Tick(MaxTime)
    /\ pc \in {"register", "enqueue"} => now' + TOOL_CALL_TIMEOUT <= MaxTime

ReadLive ==
    /\ now + TOOL_CALL_TIMEOUT <= MaxTime
    /\ ReadPluginTool("studio-run_script")

NextLive ==
    \/ TickLive
    \/ next_client < MaxClients /\ handle_register(S_1_0)
    \/ \E h \in Pollers : Pull(h)
    \/ \E r \in KnownRequestIds, b \in BareBodies :
           handle_push(UnknownClient, <<BridgeToolResponse(r, b)>>, <<>>)
    \/ ReadLive
    \/ Call

\* Concurrent polls: one plugin polls with two /pull requests at once, also
\* with a clientId that is not registered, while the caller issues tool calls.
NextPull ==
    \/ Tick(MaxTime)
    \/ next_client < MaxClients /\ handle_register(S_1_0)
    \/ \E h \in Handlers : Pull(h)
    \/ ReadPluginTool("studio-run_script")
    \/ Call

SpecPull == Init /\ [][NextPull]_vars

SpecLive ==
    /\ Init
    /\ [][NextLive]_vars
    /\ WF_vars(TickLive)
    /\ WF_vars(Call)
    /\ \A h \in Handlers : WF_vars(PullTimeout(h))

\* Pruning under a waiting call: the plugin registers, may poll and answer,
\* and goes silent; GET /status prunes it while the caller's tools/call
\* waits.  Time passes, the stdio task runs, and a /pull timer that is due
\* fires.
TickPrune ==
    /\ Tick(MaxTimeStdio)
    /\ pc \in {"register", "enqueue"} => now' + TOOL_CALL_TIMEOUT <= MaxTimeStdio

ReadPrune ==
    /\ now + TOOL_CALL_TIMEOUT <= MaxTimeStdio
    /\ ReadPluginTool("studio-run_script")

NextPrune ==
    \/ TickPrune
    \/ next_client < MaxClients /\ handle_register(S_1_0)
    \/ handle_status
    \/ \E h \in Pollers : Pull(h)
    \/ \E r \in KnownRequestIds, b \in BareBodies :
           handle_push(UnknownClient, <<BridgeToolResponse(r, b)>>, <<>>)
    \/ ReadPrune
    \/ Call

SpecPrune ==
    /\ Init
    /\ [][NextPrune]_vars
    /\ WF_vars(TickPrune)
    /\ WF_vars(Call)
    /\ \A h \in Handlers : WF_vars(PullTimeout(h))

\* Logging: /push handlers that carry one studio.log event each run at
\* once.  push_log takes the log_seq lock, builds the entry and releases the
\* lock before it takes the log_buffer lock, so that another handler can
\* run between the two; log_task[p] holds the entry that handler p has
\* built and not yet appended.  The buffer starts empty or one short of
\* full, as a run of push_log calls leaves it.
LogLevels == {None, Some(JString("warn"))}

LogStarts == {0, MAX_LOG_BUFFER - 1}

LogEvent(level) ==
    [event_type |-> "studio.log",
     data |-> [level |-> level, message |-> Some(JString("m")),
               sessionId |-> None,
               active |-> None, mode |-> None]]

\* the buffer after n < MAX_LOG_BUFFER calls of push_log: entries 1..n
LoggedBuffer(n) ==
    [i \in 1..n |-> [seq |-> i, ts |-> 0, level |-> "output",
                     message |-> "m", session_id |-> None]]

\* the events that are still accepted: MaxLogs from either start
LogRoom ==
    \E start \in LogStarts : log_seq >= start /\ log_seq < start + MaxLogs

InitLog ==
    /\ now = 0
    /\ clients = <<>>
    /\ next_client = 0
    /\ permit = [c \in ClientIds |-> FALSE]
    /\ waiters = [c \in ClientIds |-> <<>>]
    /\ pull = [h \in Handlers |-> IdlePull]
    /\ pending_calls = {}
    /\ next_request = 0
    /\ pc = "read"
    /\ call = NoCall
    /\ rx = None
    /\ lines = 0
    /\ stdout = <<>>
    /\ enqueued = [c \in ClientIds |-> <<>>]
    /\ drained = [c \in ClientIds |-> <<>>]
    /\ push_results = <<>>
    /\ issued = <<>>
    /\ delivered = <<>>
    /\ requests_read = {}
    /\ log_seq \in LogStarts
    /\ log_buffer = LoggedBuffer(log_seq)
    /\ playtest_state = PlaytestState_default
    /\ config = None
    /\ http_response = None
    /\ log_task = [p \in Pushers |-> None]
    /\ writer = WriterIdle
    /\ terminal = <<>>
    /\ mutex = [m \in Mutexes |-> NoTask]
    /\ running = [t \in Tasks |-> <<>>]
    /\ status_task = NoStatus

\* handle_event of handler p, studio.log, to the release of the log_seq
\* lock: the counter is advanced and the entry built
PushLogAssign(p, event) ==
    /\ log_task[p] = None
    /\ event.event_type = "studio.log"
    /\ log_seq' = next_seq(log_seq)
    /\ log_task' = [log_task EXCEPT ![p] =
           Some([seq |-> log_seq',
                 ts |-> now,
                 level |-> unwrap_or(get_str(event.data.level), "output"),
                 message |-> unwrap_or(get_str(event.data.message), ""),
                 session_id |-> get_str(event.data.sessionId)])]
    /\ UNCHANGED <<now, http_vars, pending_calls, next_request, rx, stdio_vars,
                   log_buffer, playtest_state, config, http_response,
                   writer_vars, task_vars,
                   history_vars>>

\* push_log of handler p under the log_buffer lock
PushLogAppend(p) ==
    /\ IsSome(log_task[p])
    /\ LET entry == Unwrap(log_task[p])
       IN  log_buffer' = push_log(log_buffer, entry.seq, entry.ts, entry.level,
                                  entry.message, entry.session_id)
    /\ log_task' = [log_task EXCEPT ![p] = None]
    /\ UNCHANGED <<now, http_vars, pending_calls, next_request, rx, stdio_vars,
                   log_seq, playtest_state, config, http_response,
                   writer_vars, task_vars,
                   history_vars>>

NextLog ==
    \/ \E p \in Pushers, level \in LogLevels :
           LogRoom /\ PushLogAssign(p, LogEvent(level))
    \/ \E p \in Pushers : PushLogAppend(p)
    \/ \E level \in LogLevels :
           LogRoom /\ handle_push(UnknownClient, <<>>, <<LogEvent(level)>>)

SpecLog == InitLog /\ [][NextLog]_vars

\* Events: the plugin pushes studio.playtest_state events whose fields are
\* present, absent or of another type, and studio.log events, one event per
\* /push; the caller reads the snapshot with the studio-status tool.
PlaytestEvents ==
    {[event_type |-> "studio.playtest_state",
      data |-> [level |-> None, message |-> None, sessionId |-> session_id,
                active |-> active, mode |-> mode]]
     : active \in {None, Some(JBool(TRUE)), Some(JBool(FALSE)),
                   Some(JString("yes"))},
       session_id \in {None, Some(JString("s1")), Some(JBool(TRUE))},
       mode \in {None, Some(JString("play"))}}

NextEvents ==
    \/ \E e \in PlaytestEvents : handle_push(UnknownClient, <<>>, <<e>>)
    \/ \E level \in LogLevels :
           log_seq < MaxLogs /\ handle_push(UnknownClient, <<>>, <<LogEvent(level)>>)
    \/ ReadStatusTool

SpecEvents == Init /\ [][NextEvents]_vars

\* Push bodies: one plugin registers, polls and pushes bodies of up to two
\* responses and two events, among them responses for a request id that is
\* not pending (never issued, or answered before, also earlier in the same
\* body) and events of a type that handle_event does not know; the caller
\* issues one tools/call.  Time passes up to the deadline of a /pull.
OtherEvent ==
    [event_type |-> "studio.other",
     data |-> [level |-> None, message |-> None, sessionId |-> None,
               active |-> None, mode |-> None]]

PlaytestOn ==
    [event_type |-> "studio.playtest_state",
     data |-> [level |-> None, message |-> None,
               sessionId |-> Some(JString("s1")),
               active |-> Some(JBool(TRUE)), mode |-> Some(JString("play"))]]

PushResponses ==
    {<<>>}
    \cup {<<BridgeToolResponse(r, b)>> : r \in KnownRequestIds, b \in BareBodies}
    \cup {<<BridgeToolResponse(UnknownRequest, b), BridgeToolResponse(r, b)>>
          : r \in KnownRequestIds, b \in BareBodies}
    \cup {<<BridgeToolResponse(r, b), BridgeToolResponse(r, b)>>
          : r \in KnownRequestIds, b \in BareBodies}

PushEvents ==
    {<<>>, <<OtherEvent>>, <<OtherEvent, PlaytestOn>>,
     <<LogEvent(None), OtherEvent>>}

\* the bodies: responses alone, events alone, and both
PushBodies ==
    {[responses |-> responses, events |-> <<>>] : responses \in PushResponses}
    \cup {[responses |-> <<>>, events |-> events] : events \in PushEvents}
    \cup {[responses |-> <<BridgeToolResponse(UnknownRequest, b),
                           BridgeToolResponse(r, b)>>,
           events |-> <<OtherEvent, PlaytestOn>>]
          : r \in KnownRequestIds, b \in BareBodies}

\* the studio.log events of a body
LogsIn(events) ==
    Cardinality({i \in 1..Len(events) : events[i].event_type = "studio.log"})

ReadPush ==
    /\ lines = 0
    /\ ReadPluginTool("studio-run_script")

NextPush ==
    \/ Tick(PULL_TIMEOUT)
    \/ next_client < MaxClients /\ handle_register(S_1_0)
    \/ \E h \in Pollers : Pull(h)
    \/ \E body \in PushBodies :
           /\ log_seq + LogsIn(body.events) <= MaxLogs
           /\ handle_push(UnknownClient, body.responses, body.events)
    \/ ReadPush
    \/ Call

SpecPush == Init /\ [][NextPush]_vars

\* Output: the loop answers requests and parse errors while the writer
\* task writes the lines it receives, piece by piece.
Writer ==
    \/ WriterRecv
    \/ WriterLine
    \/ WriterNewline
    \/ WriterFlush

NextWriter ==
    \/ ReadParseError
    \/ \E m \in RequestMethods : ReadRequest(m)
    \/ ReadToolsCallNoName
    \/ \E t \in DisabledTools : ReadDisabledTool(t)
    \/ Writer

SpecWriter == Init /\ [][NextWriter]_vars

\* Wakeups: the main plugin and the playtest bridge register and poll, each
\* /pull naming either client; the caller issues tool calls that are routed
\* to one or the other.  Time passes up to the deadline of the first call.
WakeTools == {"studio-run_script", "studio-virtualuser_key"}

NextWake ==
    \/ Tick(TOOL_CALL_TIMEOUT)
    \/ \E v \in {S_1_0, S_1_0_playtest} :
           next_client < MaxRegistry /\ handle_register(v)
    \/ \E h \in Handlers : Pull(h)
    \/ \E t \in WakeTools : ReadPluginTool(t)
    \/ Call

SpecWake == Init /\ [][NextWake]_vars

\* Locks: every method of SharedState as the lock operations it performs on
\* the Mutexes of Inner, every handler as the methods it awaits one after
\* the other, and three tasks that run handlers at once.  lock().await
\* returns when the Mutex is free; a guard is released where it goes out of
\* scope or is dropped.
Lock(m) == [op |-> "lock", mutex |-> m]
Unlock(m) == [op |-> "unlock", mutex |-> m]

\* a method whose body runs under one guard
Locked(m) == <<Lock(m), Unlock(m)>>

register_client_locks == Locked("clients")
prune_stale_clients_locks == Locked("clients")
has_connected_client_locks == prune_stale_clients_locks \o Locked("clients")
connected_client_count_locks == prune_stale_clients_locks \o Locked("clients")
first_client_id_locks == Locked("clients")
client_info_locks == Locked("clients")
enqueue_tool_request_locks == Locked("clients")
drain_outbound_locks == Locked("clients")
get_notify_locks == Locked("clients")
register_pending_locks == Locked("pending_calls")
resolve_pending_locks == Locked("pending_calls")
pending_call_count_locks == Locked("pending_calls")
log_buffer_size_locks == Locked("log_buffer")
update_playtest_locks == Locked("playtest_state")
is_playtest_active_locks == Locked("playtest_state")
playtest_info_locks == Locked("playtest_state")

\* a faulty push_log: the guard of log_seq lives to the end of the function
push_log_locks_nested ==
    <<Lock("log_seq"), Lock("log_buffer"), Unlock("log_buffer"),
      Unlock("log_seq")>>

\* push_log: drop(seq) comes before log_buffer.lock()
push_log_locks ==
    <<Lock("log_seq"), Unlock("log_seq"), Lock("log_buffer"),
      Unlock("log_buffer")>>

handle_register_locks == register_client_locks

\* handle_pull that finds nothing at once and is woken
handle_pull_locks ==
    drain_outbound_locks \o get_notify_locks \o drain_outbound_locks

\* handle_push with a response, a studio.log event and a
\* studio.playtest_state event
handle_push_locks ==
    resolve_pending_locks \o push_log_locks \o update_playtest_locks

handle_status_locks ==
    connected_client_count_locks \o pending_call_count_locks
    \o log_buffer_size_locks \o is_playtest_active_locks

\* handle_tools_call of a plugin tool
handle_tools_call_locks ==
    has_connected_client_locks \o register_pending_locks
    \o enqueue_tool_request_locks

handle_status_tool_locks ==
    has_connected_client_locks \o first_client_id_locks
    \o playtest_info_locks \o client_info_locks

\* the handlers a task can run
HandlerLocks(t) ==
    IF t = "stdio"
    THEN {handle_tools_call_locks, handle_status_tool_locks}
    ELSE {handle_register_locks, handle_pull_locks, handle_push_locks,
          handle_status_locks}

\* task t begins a handler
LockBegin(t, handler) ==
    /\ running[t] = <<>>
    /\ running' = [running EXCEPT ![t] = handler]
    /\ UNCHANGED <<now, http_vars, pending_calls, next_request, rx, stdio_vars,
                   event_vars, config, http_response, log_task, writer_vars,
                   mutex, status_task, history_vars>>

\* Mutex::lock().await of task t returns: the Mutex was free
LockAcquire(t) ==
    /\ running[t] # <<>>
    /\ Head(running[t]).op = "lock"
    /\ mutex[Head(running[t]).mutex] = NoTask
    /\ mutex' = [mutex EXCEPT ![Head(running[t]).mutex] = t]
    /\ running' = [running EXCEPT ![t] = Tail(@)]
    /\ UNCHANGED <<now, http_vars, pending_calls, next_request, rx, stdio_vars,
                   event_vars, config, http_response, log_task, writer_vars,
                   status_task, history_vars>>

\* the guard of task t is released
LockRelease(t) ==
    /\ running[t] # <<>>
    /\ Head(running[t]).op = "unlock"
    /\ mutex' = [mutex EXCEPT ![Head(running[t]).mutex] = NoTask]
    /\ running' = [running EXCEPT ![t] = Tail(@)]
    /\ UNCHANGED <<now, http_vars, pending_calls, next_request, rx, stdio_vars,
                   event_vars, config, http_response, log_task, writer_vars,
                   status_task, history_vars>>

NextLocks ==
    \/ \E t \in Tasks : \E handler \in HandlerLocks(t) : LockBegin(t, handler)
    \/ \E t \in Tasks : LockAcquire(t)
    \/ \E t \in Tasks : LockRelease(t)

SpecLocks == Init /\ [][NextLocks]_vars

\* Continuous polling: one plugin registers and polls; it starts each /pull
\* less than PollGap seconds after the response of the previous one (the
\* first less than PollGap seconds after it registered), while GET /status
\* and the caller's tool calls prune.  An idle handler's deadline field
\* holds the time by which the plugin polls again.  The steps of a handler
\* take no time: the clock stands still while a /pull is between two of
\* them.
PollGap == PRUNE_CUTOFF - PULL_TIMEOUT

\* the client of the plugin that polls: the first to register.  A client
\* registered after it never polls.
PollingClient == 1

\* the HTTP response of a /pull has been sent; the plugin will poll again
PullReturn(h) ==
    /\ pull[h].pc = "done"
    /\ pull' = [pull EXCEPT ![h] = [IdlePull EXCEPT !.deadline = now + PollGap]]
    /\ UNCHANGED <<now, clients, next_client, permit, waiters, pending_calls,
                   next_request, rx, stdio_vars, event_vars, bridge_vars, history_vars>>

\* the times by which the plugin starts its next /pull
PollDeadlines ==
    {pull[h].deadline : h \in {g \in Pollers : pull[g].pc = "idle"
                                             /\ pull[g].deadline > 0}}
    \cup {clients[k].last_poll + PollGap
          : k \in {j \in DOMAIN clients \cap {PollingClient} :
                      \A h \in Pollers : pull[h] = IdlePull}}

\* Time passes: by Step, to the next deadline, or to the last second before
\* the plugin polls again.
TickPoll ==
    /\ now < MaxTimeStdio
    /\ \A h \in Pollers : pull[h].pc \in {"idle", "waiting"}
    /\ \A d \in ArmedDeadlines : now < d
    /\ \E t \in {now + Step, MaxTimeStdio} \cup ArmedDeadlines
                \cup {d - 1 : d \in PollDeadlines} :
           /\ t > now
           /\ t <= MaxTimeStdio
           /\ \A d \in ArmedDeadlines : t <= d
           /\ \A d \in PollDeadlines : t < d
           /\ now' = t
    /\ UNCHANGED <<http_vars, pending_calls, next_request, rx, stdio_vars,
                   event_vars, bridge_vars, history_vars>>

NextPoll ==
    \/ TickPoll
    \/ next_client < MaxClients /\ handle_register(S_1_0)
    \/ handle_status
    \/ \E h \in Pollers, c \in KnownClientIds \cap {PollingClient} :
           PullStart(h, c)
    \/ \E h \in Pollers : PullGetNotify(h)
    \/ \E h \in Pollers : PullPoll(h)
    \/ \E h \in Pollers : PullWoken(h)
    \/ \E h \in Pollers : PullTimeout(h)
    \/ \E h \in Pollers : PullReturn(h)
    \/ ReadPluginTool("studio-run_script")
    \/ Call

SpecPoll == Init /\ [][NextPoll]_vars

\* Push senders: the main plugin and the playtest bridge register and poll;
\* the caller issues one tools/call, routed to one of them; every /push
\* names a clientId other than that of the client the request was routed
\* to: the other client's, or one that is not registered.
PushClientIds == {UnknownClient} \cup (1..MaxRegistry)

\* the clients to whose queue the request r was appended
RoutedTo(r) ==
    {k \in ClientIds :
        \E i \in 1..Len(enqueued[k]) : enqueued[k][i].request_id = r}

PushIdEvents == {<<>>, <<PlaytestOn>>}

\* the plugin answers with a bare success
PushIdBodies == {b \in BareBodies : b.success}

ForeignPush ==
    \E r \in KnownRequestIds, b \in PushIdBodies, events \in PushIdEvents :
        \E c \in PushClientIds \ RoutedTo(r) :
            handle_push(c, <<BridgeToolResponse(r, b)>>, events)

ReadPushId ==
    /\ lines = 0
    /\ \E t \in WakeTools : ReadPluginTool(t)

NextPushId ==
    \/ Tick(PULL_TIMEOUT)
    \/ \E v \in {S_1_0, S_1_0_playtest} :
           next_client < MaxRegistry /\ handle_register(v)
    \/ \E h \in Pollers : Pull(h)
    \/ ForeignPush
    \/ ReadPushId
    \/ Call

SpecPushId == Init /\ [][NextPushId]_vars

\* Status under registration: plugins register and go stale and GET /status
\* prunes while the caller reads the status with the studio-status tool,
\* whose reads of the registry are separate lock acquisitions.  The reads of
\* one call follow each other at once: the clock stands still meanwhile.
StatusTool ==
    \/ StatusToolPrune
    \/ StatusToolConnected
    \/ StatusToolFirst
    \/ StatusToolPlaytest
    \/ StatusToolInfo

NextStatus ==
    \/ pc = "read" /\ Tick(MaxTimeStdio)
    \/ \E v \in {S_1_0, S_1_0_playtest} :
           next_client < MaxRegistry /\ handle_register(v)
    \/ handle_status
    \/ handle_push(UnknownClient, <<>>, <<PlaytestOn>>)
    \/ StatusTool

SpecStatus == Init /\ [][NextStatus]_vars

\* ---------------------------------------------------------------- claims

\* the positions in stdout of the responses that carry the JSON-RPC id
RepliesTo(id) == {i \in 1..Len(stdout) : stdout[i].id = Some(id)}

\* a tools/call reply: a JSON-RPC success whose result is a tool result
ToolReply(id, text, isError) ==
    [id |-> Some(id),
     result |-> Some([kind |-> "tool", text |-> text, isError |-> isError,
                      data |-> None]),
     error |-> None]

\* the payload of a successful response as text: a string result verbatim,
\* any other JSON value printed, "ok" when there is no result
PayloadText(response) ==
    IF response.result = None THEN "ok"
    ELSE IF response.result[1].t = "string" THEN response.result[1].s
    ELSE IF response.result[1].b THEN "true" ELSE "false"

\* C1: a call that awaits without a response still has its reply slot in
\* the table, so that a /push with its request id is delivered; and once a
\* response with success = true has been delivered for request R while its
\* call was waiting, that call returns exactly one reply, under its own
\* JSON-RPC id, with isError = false and the response's payload as text.
C1_RoundTrip ==
    /\ (pc = "await" /\ rx = None) => call.request_id \in pending_calls
    /\ \A r \in 1..next_request :
        (IsSome(delivered[r]) /\ delivered[r][1].success) =>
            IF ReceiverAlive(r)
            THEN rx = delivered[r] /\ RepliesTo(issued[r].id) = {}
            ELSE \E i \in 1..Len(stdout) :
                    /\ RepliesTo(issued[r].id) = {i}
                    /\ stdout[i] = ToolReply(issued[r].id,
                                             PayloadText(delivered[r][1]),
                                             FALSE)

\* C1: a request was drained by a /pull, answered with the string "1", and
\* its call has returned that string
C1_Witness ==
    \E r \in 1..next_request, c \in ClientIds :
        /\ \E j \in 1..Len(drained[c]) : drained[c][j].request_id = r
        /\ delivered[r] = Some([request_id |-> r, success |-> TRUE,
                                result |-> Some(JString("1")),
                                error |-> None])
        /\ \E i \in 1..Len(stdout) :
               stdout[i] = ToolReply(issued[r].id, "1", FALSE)

\* C2: every request read from stdin has exactly one response carrying its
\* id once it has been handled, none while its tools/call is still in
\* progress, and no response carries an id that no request had.
C2_OneResponsePerRequest ==
    \A i \in 1..MaxLines :
        Cardinality(RepliesTo(i)) =
            IF i \in requests_read /\ ~(pc # "read" /\ call.id = i)
            THEN 1 ELSE 0

\* C2: two tool calls have been answered, the first by the timeout and the
\* second by the failed enqueue
C2_Witness ==
    /\ pc = "read"
    /\ requests_read = {1, 2}
    /\ Len(stdout) = 2
    /\ stdout[1].id = Some(1)
    /\ stdout[2] = ToolReply(2, "Failed to enqueue tool request to plugin",
                             TRUE)
    /\ next_request = 2

\* the reply of a tool call that timed out
TimeoutReply(id, tool_name) ==
    ToolReply(id,
              "Tool call '" \o tool_name
              \o "' timed out after 30s. Is the Studio plugin running?",
              TRUE)

\* C3: a call whose request was enqueued waits for 30 s at most: its
\* deadline is 30 s after the enqueue, while it waits without a response
\* the deadline has not passed, when it returns without a response it does
\* so at the deadline with isError = true and the timeout text that names
\* the tool, and every call that waits returns.
C3_Timeout ==
    /\ [](pc = "await" /\ rx = None => now <= call.deadline)
    /\ [][pc = "enqueue" /\ pc' = "await" => call'.deadline = now + 30]_vars
    /\ [][pc = "await" /\ rx = None /\ pc' = "read" =>
            /\ now = call.deadline
            /\ stdout' = Append(stdout,
                                TimeoutReply(call.id, call.tool_name))]_vars
    /\ (pc = "await" ~> pc = "read")

\* C3: the first call, enqueued at 0, has returned the timeout reply at 30
C3_Witness ==
    /\ now = 30
    /\ pc = "read"
    /\ enqueued[1] # <<>>
    /\ delivered = <<None>>
    /\ stdout = <<TimeoutReply(1, "studio-run_script")>>

\* C4: the pending table holds a request id only while the tools/call that
\* registered it has not returned, and when no call is in progress /status
\* reports pending_calls = 0.
C4_PendingOnlyWhileCalled ==
    /\ \A r \in pending_calls : ReceiverAlive(r)
    /\ pc = "read" => BridgeStatusResponse(clients).pending_calls = 0

\* the call of request r has returned the timeout reply
TimedOut(r) ==
    \E i \in 1..Len(stdout) :
        stdout[i] = TimeoutReply(issued[r].id, issued[r].tool_name)

\* C5: a response pushed for a request whose call has timed out finds no
\* slot: resolve_pending returns false for it.
C5_LatePushFindsNoSlot ==
    \A i \in 1..Len(push_results) :
        LET r == push_results[i].request_id
        IN  (r \in 1..next_request /\ TimedOut(r)) =>
                ~push_results[i].resolved

\* C6: once a response has been delivered for request R, a further /push
\* with request id R has resolve_pending return false and leaves the
\* pending table, the receiver, the queues, the delivered response and the
\* caller's output unchanged.
C6_ResolvedAtMostOnce ==
    [][\A r \in 1..next_request, b \in ResponseBodies :
          (/\ IsSome(delivered[r])
           /\ handle_push(UnknownClient, <<BridgeToolResponse(r, b)>>, <<>>))
          => /\ push_results' = <<[request_id |-> r, resolved |-> FALSE]>>
             /\ UNCHANGED <<pending_calls, rx, clients, delivered, stdout>>
      ]_vars

\* C6: request 1 was answered, and the last /push answered it again
C6_Witness ==
    /\ next_request >= 1
    /\ IsSome(delivered[1])
    /\ push_results = <<[request_id |-> 1, resolved |-> FALSE]>>

\* the plugin versions of the registries that make a client a playtest
\* bridge: those that contain "playtest"
BridgeVersions == {S_1_0_playtest}

\* the tools that prefer the playtest bridge
BridgeTools ==
    {"studio-virtualuser_key", "studio-virtualuser_mouse_button",
     "studio-virtualuser_move_mouse", "studio-npc_driver_start",
     "studio-npc_driver_command", "studio-npc_driver_stop",
     "studio-playtest_stop"}

\* the registered clients of the class that the tool prefers
MatchingClients(tool_name) ==
    {k \in DOMAIN clients :
        (clients[k].plugin_version \in BridgeVersions)
        = (tool_name \in BridgeTools)}

\* this step is the enqueue_tool_request of the call in progress
EnqueueStep == pc = "enqueue" /\ pc' # "enqueue"

\* this step appends the request of the call in progress to the queue of
\* client k and changes nothing else of the registry
AppendsTo(k) ==
    clients' = [clients EXCEPT ![k].outbound_queue =
                   Append(@, [request_id |-> call.request_id,
                              tool_name |-> call.tool_name,
                              arguments |-> "{}"])]

C8_FallsBackToMostRecent ==
    [][(/\ EnqueueStep
        /\ DOMAIN clients # {}
        /\ MatchingClients(call.tool_name) = {})
       => \E k \in DOMAIN clients :
              /\ \A j \in DOMAIN clients :
                     clients[j].last_poll <= clients[k].last_poll
              /\ AppendsTo(k)]_vars

\* C8: two main plugins are registered and a bridge-preferring tool has
\* gone to the one that polled last
C8_Witness ==
    /\ pc = "await"
    /\ call.tool_name = "studio-playtest_stop"
    /\ DOMAIN clients = {1, 2}
    /\ \A k \in {1, 2} : clients[k].plugin_version \notin BridgeVersions
    /\ clients[1].last_poll > clients[2].last_poll
    /\ clients[2].outbound_queue = <<>>
    /\ Len(clients[1].outbound_queue) = 1
    /\ clients[1].outbound_queue[1].request_id = call.request_id

\* C9: enqueue_tool_request fails exactly when the registry is empty; when
\* it succeeds the request is appended to the queue of exactly one client,
\* when it fails no queue changes.
C9_EnqueueFailsIffEmpty ==
    [][EnqueueStep =>
          /\ (pc' = "await") = (DOMAIN clients # {})
          /\ pc' = "await" =>
                Cardinality({k \in DOMAIN clients : AppendsTo(k)}) = 1
          /\ pc' # "await" =>
                /\ clients' = clients
                /\ stdout' = Append(stdout,
                      ToolReply(call.id,
                                "Failed to enqueue tool request to plugin",
                                TRUE))]_vars

\* C9: the first call was enqueued; the registry was pruned empty before
\* the enqueue of the second, which failed
C9_Witness ==
    /\ pc = "read"
    /\ next_request = 2
    /\ clients = <<>>
    /\ \E c \in ClientIds : Len(enqueued[c]) = 1
    /\ \A c \in ClientIds : Len(enqueued[c]) <= 1
    /\ Len(stdout) = 2
    /\ stdout[2] = ToolReply(2, "Failed to enqueue tool request to plugin",
                             TRUE)

\* C10: what was appended to a client's queue is what its drains returned
\* followed by what is still queued, in the order of the appends; a drain
\* returns the whole queue in that order and leaves the queue empty.
C10_DrainTotalFifo ==
    /\ [](\A c \in DOMAIN clients :
             enqueued[c] = drained[c] \o clients[c].outbound_queue)
    /\ [][\A h \in Handlers :
            (/\ pull[h].pc \in {"idle", "woken"}
             /\ pull'[h] # pull[h]
             /\ pull'[h].client_id \in DOMAIN clients)
            => LET c == pull'[h].client_id
               IN  /\ clients'[c].outbound_queue = <<>>
                   /\ drained'[c] = drained[c] \o clients[c].outbound_queue
                   /\ pull'[h].pc = "done" =>
                         /\ pull'[h].status = 200
                         /\ pull'[h].body = clients[c].outbound_queue
                   /\ pull'[h].pc # "done" =>
                         clients[c].outbound_queue = <<>>]_vars

\* C10: a /pull has returned the requests of two calls, in the order in
\* which they were enqueued, and the queue is empty
C10_Witness ==
    \E h \in Handlers :
        /\ pull[h].pc = "done"
        /\ pull[h].status = 200
        /\ Len(pull[h].body) = 2
        /\ pull[h].body[1].request_id = 1
        /\ pull[h].body[2].request_id = 2
        /\ clients[pull[h].client_id].outbound_queue = <<>>

\* the request ids of a sequence of requests
RequestIdsOf(requests) ==
    {requests[i].request_id : i \in 1..Len(requests)}

\* C11: with /pull requests running at once, no request is returned twice:
\* the requests that the drains of a client returned are pairwise distinct,
\* no request was returned to two clients, and the bodies of two /pull
\* responses that are being sent share no request, so that of the pulls
\* that race for one request all but one return an empty array.
C11_NoRequestReturnedTwice ==
    /\ \A c \in ClientIds :
           Cardinality(RequestIdsOf(drained[c])) = Len(drained[c])
    /\ \A c1, c2 \in ClientIds :
           c1 # c2 =>
               RequestIdsOf(drained[c1]) \cap RequestIdsOf(drained[c2]) = {}
    /\ \A h1, h2 \in Handlers :
           (h1 # h2 /\ pull[h1].pc = "done" /\ pull[h2].pc = "done") =>
               RequestIdsOf(pull[h1].body) \cap RequestIdsOf(pull[h2].body)
                   = {}
    /\ \A h \in Handlers :
           (pull[h].pc = "done" /\ pull[h].client_id \in ClientIds) =>
               RequestIdsOf(pull[h].body)
                   \subseteq RequestIdsOf(drained[pull[h].client_id])

\* C11: two /pull requests of client 1 ran at once; one returns request 1,
\* the other an empty array
C11_Witness ==
    /\ pull[1].pc = "done" /\ pull[2].pc = "done"
    /\ pull[1].client_id = 1 /\ pull[2].client_id = 1
    /\ pull[1].status = 200 /\ pull[2].status = 200
    /\ RequestIdsOf(pull[1].body) = {1}
    /\ pull[2].body = <<>>
    /\ RequestIdsOf(drained[1]) = {1}

\* the handlers other than h that a wakeup of client c has reached and
\* that have not drained yet
WokenOthers(h, c) ==
    {g \in Handlers \ {h} : pull[g].client_id = c /\ pull[g].pc = "woken"}

\* C12: no wakeup is lost.  While a /pull of client c is between its empty
\* immediate drain and its response and a request is queued for c, the
\* signal of the enqueue is held as the stored permit or has woken a /pull
\* of c that has not drained yet; a /pull that has been woken returns all
\* that is queued; and a /pull gives up at its 25 s deadline only when the
\* queue is empty or another /pull has been woken to take the request.
C12_NoLostWakeup ==
    /\ [](\A h \in Handlers :
            LET c == pull[h].client_id
            IN  (/\ pull[h].pc \in {"get_notify", "poll", "waiting"}
                 /\ c \in DOMAIN clients
                 /\ clients[c].outbound_queue # <<>>)
                => permit[c] \/ WokenOthers(h, c) # {})
    /\ [][\A h \in Handlers :
            LET c == pull[h].client_id
            IN  (c \in DOMAIN clients /\ pull'[h].pc = "done") =>
                  /\ pull[h].pc = "woken" =>
                        pull'[h].body = clients[c].outbound_queue
                  /\ pull[h].pc = "waiting" =>
                        /\ now = pull[h].deadline
                        /\ pull'[h].body = <<>>
                        /\ \/ clients[c].outbound_queue = <<>>
                           \/ WokenOthers(h, c) # {}]_vars

\* C12: request 1 was enqueued between the empty immediate drain of a /pull
\* and the start of its wait; the /pull has consumed the stored permit
\* without arming its timer and is about to drain the request
C12_Witness ==
    \E h \in Handlers :
        /\ pull[h].pc = "woken"
        /\ pull[h].deadline = 0
        /\ pull[h].client_id = 1
        /\ drained[1] = <<>>
        /\ RequestIdsOf(clients[1].outbound_queue) = {1}

\* C13: a /pull whose clientId is not in the registry changes no shared
\* state, neither in its drain nor in its lookup of the wakeup handle: it
\* creates no client, touches no queue, no last_poll, no wakeup state and
\* no pending entry, and it answers 404.
C13_UnknownClientPull ==
    [][\A h \in Handlers :
          /\ (/\ pull[h].pc = "idle"
              /\ pull'[h].pc # "idle"
              /\ pull'[h].client_id \notin DOMAIN clients)
             => /\ pull'[h].pc = "get_notify"
                /\ UNCHANGED <<clients, next_client, permit, waiters,
                               pending_calls, rx, drained, enqueued>>
          /\ (/\ pull[h].pc = "get_notify"
              /\ pull'[h] # pull[h]
              /\ pull[h].client_id \notin DOMAIN clients)
             => /\ pull'[h].pc = "done"
                /\ pull'[h].status = 404
                /\ pull'[h].body = <<>>
                /\ UNCHANGED <<clients, next_client, permit, waiters,
                               pending_calls, rx, drained, enqueued>>]_vars

\* C13: with client 1 registered, a /pull with a clientId that was never
\* handed out is answered 404
C13_Witness ==
    \E h \in Handlers :
        /\ pull[h].pc = "done"
        /\ pull[h].status = 404
        /\ pull[h].client_id = UnknownClient
        /\ DOMAIN clients = {1}
        /\ enqueued[1] # <<>>
        /\ clients[1].outbound_queue = enqueued[1]

\* the response that a rejected request gets
Rejection(route, a) ==
    Some([route |-> route, authorization |-> a, status |-> 401,
          body |-> "Invalid or missing Authorization header"])

\* C14: with a token configured, a request to /register, /pull, /push or
\* /status whose Authorization header is absent or is not "Bearer <token>"
\* is answered 401 and leaves the registry, the queues, the wakeup state,
\* the /pull handlers, the pending table, the reply slot, the log and the
\* playtest state unchanged; /health is answered 200 "ok".
C14_Unauthorized ==
    /\ [](\A r \in {http_response[i] : i \in 1..Len(http_response)} :
             r.route = "/health" => r.status = 200 /\ r.body = "ok")
    /\ [][\A a \in Authorizations :
            (IsSome(config) /\ a # Some("Bearer " \o config[1])) =>
              /\ RegisterRequest(a) => http_response' = Rejection("/register", a)
              /\ PullRequest(a) => http_response' = Rejection("/pull", a)
              /\ PushRequest(a) => http_response' = Rejection("/push", a)
              /\ StatusRequest(a) => http_response' = Rejection("/status", a)
              /\ (\/ RegisterRequest(a) \/ PullRequest(a)
                  \/ PushRequest(a) \/ StatusRequest(a))
                 => UNCHANGED <<clients, next_client, permit, waiters, pull,
                                pending_calls, rx, enqueued, drained,
                                push_results, delivered, log_seq, log_buffer,
                                playtest_state>>]_vars

\* C14: a token is configured; client 1 has gone stale with a request in
\* its queue and a call pending, and a /status without the header has been
\* answered 401 without pruning it
C14_Witness ==
    /\ config = Some(Token)
    /\ http_response = Rejection("/status", None)
    /\ 1 \in DOMAIN clients
    /\ now - clients[1].last_poll > 60
    /\ clients[1].outbound_queue # <<>>
    /\ pending_calls # {}

\* no registered client has polled within the last 60 s
NoLiveClient ==
    \A k \in DOMAIN clients : now - clients[k].last_poll > 60

\* C15: a tools/call for a plugin-bound tool that is read when no client is
\* registered, or when every registered client is stale, is answered in
\* the same step with the "No Roblox Studio plugin connected" error: no
\* request id is minted, no pending entry registered, nothing enqueued,
\* and the loop is back at reading without any time having passed.
C15_NoPluginConnected ==
    [][\A t \in {"studio-virtualuser_key", "studio-run_script"} :
          (NoLiveClient /\ ReadPluginTool(t)) =>
              /\ stdout' = Append(stdout,
                     ToolReply(LineId,
                         "No Roblox Studio plugin connected. Install the plugin and click Connect.",
                         TRUE))
              /\ pc' = "read"
              /\ DOMAIN clients' = {}
              /\ UNCHANGED <<now, pending_calls, next_request, rx, enqueued,
                             issued>>]_vars

\* C15: client 1 went stale and was pruned by the tools/call of line 1,
\* which was answered with the error; nothing was registered or enqueued
C15_Witness ==
    /\ next_client = 1
    /\ clients = <<>>
    /\ pc = "read"
    /\ stdout = <<ToolReply(1,
           "No Roblox Studio plugin connected. Install the plugin and click Connect.",
           TRUE)>>
    /\ pending_calls = {}
    /\ next_request = 0
    /\ enqueued[1] = <<>>

\* the step answers line LineId on stdout and goes on reading: it mints no
\* request id, registers no pending call and appends to no client's queue
AnsweredLocally ==
    /\ Len(stdout') = Len(stdout) + 1
    /\ stdout'[Len(stdout')].id = Some(LineId)
    /\ stdout'[Len(stdout')].error = None
    /\ pc' = "read"
    /\ \A k \in DOMAIN clients' :
           clients'[k].outbound_queue = clients[k].outbound_queue
    /\ UNCHANGED <<now, pending_calls, next_request, rx, call, enqueued,
                   issued>>

\* C16: a tools/call for studio-status or for one of the three unsupported
\* capture tools is answered in the step that reads it, whatever the
\* registry holds: no pending call, no queue append, no id minted.  The
\* studio-status result is not an error and reports connected exactly when a
\* client polled within the last 60 s; the unsupported tools get an error
\* result with their fixed reason.
C16_AnsweredLocally ==
    [][/\ ReadStatusTool =>
              /\ AnsweredLocally
              /\ Unwrap(stdout'[Len(stdout')].result).isError = FALSE
              /\ Unwrap(Unwrap(stdout'[Len(stdout')].result).data).connected
                     = ~NoLiveClient
       /\ \A t \in DisabledTools :
              ReadDisabledTool(t) =>
                  /\ AnsweredLocally
                  /\ UNCHANGED clients
                  /\ stdout'[Len(stdout')] =
                         ToolReply(LineId, Unwrap(disabled_reason(t)), TRUE)]_vars

\* C16: with no client ever registered, studio-status was answered with a
\* non-error result reporting connected = false and an unsupported tool
\* with its error; nothing was registered or enqueued
C16_Witness ==
    /\ next_client = 0
    /\ Len(stdout) = 2
    /\ stdout[1].id = Some(1)
    /\ IsSome(stdout[1].result)
    /\ Unwrap(stdout[1].result).text = "status"
    /\ Unwrap(stdout[1].result).isError = FALSE
    /\ Unwrap(Unwrap(stdout[1].result).data).connected = FALSE
    /\ stdout[2] = ToolReply(2,
           "Unsupported: CaptureService does not expose a video recording API.",
           TRUE)
    /\ pending_calls = {}
    /\ next_request = 0
    /\ pc = "read"

\* the step runs prune_stale_clients: GET /status, the studio-status tool,
\* or the has_connected_client test of a plugin-bound tools/call
PruneStep ==
    \/ handle_status
    \/ ReadStatusTool
    \/ \E t \in RoutedTools : ReadPluginTool(t)

\* C17: right after a step that prunes, the registry holds exactly the
\* clients that polled within the last 60 s: none whose last poll is more
\* than 60 s old is left, and every other client is still there with its
\* version, last poll and queue as before.
C17_PruneKeepsExactlyLive ==
    [][PruneStep =>
          /\ DOMAIN clients' =
                 {k \in DOMAIN clients : now - clients[k].last_poll <= 60}
          /\ \A k \in DOMAIN clients' : clients'[k] = clients[k]]_vars

\* C17: GET /status at time 61 pruned client 1, to which a request had been
\* routed, and kept client 2, whose last poll is exactly 60 s old, with the
\* request in its queue
C17_Witness ==
    /\ now = 61
    /\ enqueued[1] # <<>>
    /\ DOMAIN clients = {2}
    /\ clients[2].last_poll = 1
    /\ clients[2].outbound_queue # <<>>
    /\ clients[2].outbound_queue = enqueued[2]

\* client c was registered and has been pruned
Pruned(c) == c \in 1..next_client /\ c \notin DOMAIN clients

\* the requests that were in the queue of a client when it was pruned
LostRequests ==
    UNION {RequestIdsOf(enqueued[c]) \ RequestIdsOf(drained[c])
           : c \in {k \in ClientIds : Pruned(k)}}

\* C18: the requests that are queued for a client when it is pruned are
\* lost to the plugin and left to their timers: no later drain returns one
\* and no /pull response carries one; the step that prunes leaves the
\* pending calls and the waiting receiver as they are; the call of such a
\* request waits without a response up to its deadline, returns only at
\* the deadline, 30 s after the enqueue, with the timeout error, and does
\* return.
C18_PrunedRequestsTimeOut ==
    /\ [][LostRequests \subseteq LostRequests']_vars
    /\ [](\A h \in Handlers :
              RequestIdsOf(pull[h].body) \cap LostRequests = {})
    /\ [][DOMAIN clients' # DOMAIN clients /\ DOMAIN clients' \subseteq DOMAIN clients
             => UNCHANGED <<pending_calls, rx, delivered>>]_vars
    /\ [](LostRequests \subseteq pending_calls)
    /\ [](pc = "await" /\ call.request_id \in LostRequests =>
              rx = None /\ now <= call.deadline)
    /\ [][pc = "await" /\ call.request_id \in LostRequests /\ pc' = "read" =>
             /\ now = call.deadline
             /\ stdout' = Append(stdout,
                                 TimeoutReply(call.id, call.tool_name))]_vars
    /\ \A r \in 1..MaxLines :
           (pc = "await" /\ call.request_id = r /\ r \in LostRequests)
               ~> (r <= Len(issued) /\ TimedOut(r))

\* C18: client 1 never polled and was pruned with requests 1 and 2 in its
\* queue; both calls have returned the timeout reply, no response was
\* delivered, and both pending entries are still there
C18_Witness ==
    /\ Pruned(1)
    /\ drained[1] = <<>>
    /\ LostRequests = {1, 2}
    /\ pc = "read"
    /\ TimedOut(1)
    /\ TimedOut(2)
    /\ pending_calls = {1, 2}
    /\ delivered = <<None, None>>

\* C19: the log buffer never holds more than 500 entries, however the
\* /push handlers interleave; an entry appended to a buffer of 500 takes
\* the place of the head: the rest keeps its order, the entry comes last
\* and the size stays 500.
C19_LogBufferBounded ==
    /\ [](Len(log_buffer) <= 500)
    /\ [][(Len(log_buffer) = 500 /\ log_buffer' # log_buffer) =>
             /\ Len(log_buffer') = 500
             /\ \A i \in 1..499 : log_buffer'[i] = log_buffer[i + 1]
             /\ \/ log_seq' = log_seq + 1 /\ log_buffer'[500].seq = log_seq'
                \/ \E p \in Pushers :
                       /\ log_task[p] = Some(log_buffer'[500])
                       /\ log_task'[p] = None]_vars

\* C19: two handlers ran at once on a buffer of 499: entry 500 filled it,
\* entries 501 and 502 each took the place of a head, 502 before 501
C19_Witness ==
    /\ Len(log_buffer) = 500
    /\ log_buffer[1].seq = 3
    /\ log_buffer[499].seq = 502
    /\ log_buffer[500].seq = 501

\* the seq values that have been assigned and not evicted: those of the
\* buffer and those of the entries not yet appended
SeqsInBuffer == {log_buffer[i].seq : i \in 1..Len(log_buffer)}

SeqsInFlight == {Unwrap(log_task[p]).seq : p \in {q \in Pushers : IsSome(log_task[q])}}

\* C20: every seq that push_log assigns is greater than all seqs assigned
\* before it, and no two entries share a seq, however the /push handlers
\* interleave: the counter only grows, by one per entry; each entry built
\* carries the new counter value; every seq in the buffer or in flight is
\* at most the counter; and the seqs of the buffer and of the entries in
\* flight are pairwise distinct.
C20_SeqStrictlyIncreasing ==
    /\ [][log_seq' # log_seq => log_seq' = log_seq + 1]_vars
    /\ [][\A p \in Pushers :
             (IsSome(log_task'[p]) /\ log_task'[p] # log_task[p]) =>
                 /\ Unwrap(log_task'[p]).seq = log_seq'
                 /\ log_seq' > log_seq
                 /\ \A s \in SeqsInBuffer \cup SeqsInFlight :
                        Unwrap(log_task'[p]).seq > s]_vars
    /\ [][\A s \in SeqsInBuffer' \ (SeqsInBuffer \cup SeqsInFlight) :
             s = log_seq' /\ log_seq' > log_seq]_vars
    /\ [](\A s \in SeqsInBuffer \cup SeqsInFlight : s <= log_seq)
    /\ [](Cardinality(SeqsInBuffer) = Len(log_buffer))
    /\ [](SeqsInBuffer \cap SeqsInFlight = {})
    /\ [](\A p, q \in Pushers :
              (p # q /\ IsSome(log_task[p]) /\ IsSome(log_task[q])) =>
                  Unwrap(log_task[p]).seq # Unwrap(log_task[q]).seq)

\* C20: two handlers hold entries with consecutive seqs at once, the later
\* one being the counter, after a third entry was appended
C20_Witness ==
    /\ log_buffer # <<>>
    /\ log_buffer[Len(log_buffer)].seq = 1
    /\ IsSome(log_task[1])
    /\ IsSome(log_task[2])
    /\ Unwrap(log_task[1]).seq = 3
    /\ Unwrap(log_task[2]).seq = 2
    /\ log_seq = 3

\* C21: the entries of the log buffer are in strictly increasing seq order
\* from head to tail, so that the entry evicted from a full buffer is the
\* one with the smallest seq.
C21_LogBufferSorted ==
    /\ \A i \in 1..(Len(log_buffer) - 1) :
           log_buffer[i + 1].seq > log_buffer[i].seq
    /\ \A i \in 1..Len(log_buffer) : log_buffer[1].seq <= log_buffer[i].seq

\* the snapshot that a studio.playtest_state event carries: active is true
\* only for the boolean true, session id and mode are the strings given
Carried(e) ==
    [active |-> e.data.active = Some(JBool(TRUE)),
     session_id |-> IF e.data.sessionId = Some(JString("s1"))
                    THEN Some("s1") ELSE None,
     mode |-> IF e.data.mode = Some(JString("play"))
              THEN Some("play") ELSE None]

\* C22: the playtest state starts as {active = false, no session id, no
\* mode}, and after a /push with a studio.playtest_state event it is the
\* snapshot that the event carries: an absent or ill-typed field gives
\* false or absent, whatever the state was before.
C22_PlaytestReplaced ==
    /\ playtest_state = [active |-> FALSE, session_id |-> None, mode |-> None]
    /\ [][\A e \in PlaytestEvents :
             handle_push(UnknownClient, <<>>, <<e>>) =>
                 playtest_state' = Carried(e)]_vars

\* C22: studio-status reported an active playtest with session and mode;
\* an event whose active is a string and that carries no session id and no
\* mode has since made the state {false, absent, absent}
C22_Witness ==
    /\ Len(stdout) = 1
    /\ IsSome(stdout[1].result)
    /\ IsSome(Unwrap(stdout[1].result).data)
    /\ Unwrap(Unwrap(stdout[1].result).data).playtest =
           [active |-> TRUE, session_id |-> Some("s1"), mode |-> Some("play")]
    /\ playtest_state = [active |-> FALSE, session_id |-> None, mode |-> None]

\* the events of a body that handle_event acts on
RECURSIVE Recognized(_)
Recognized(events) ==
    IF events = <<>> THEN <<>>
    ELSE IF Head(events).event_type \in {"studio.log", "studio.playtest_state"}
    THEN <<Head(events)>> \o Recognized(Tail(events))
    ELSE Recognized(Tail(events))

\* the positions of the responses of a body whose request id is pending and
\* named by no earlier response of the body
Matching(responses) ==
    {i \in 1..Len(responses) :
        /\ responses[i].request_id \in pending_calls
        /\ \A j \in 1..(i - 1) :
               responses[j].request_id # responses[i].request_id}

\* C23: a /push is answered 200 {ok: true} whatever its body holds.  The
\* responses that match no pending entry and the events of an unknown type
\* change nothing: the pending table loses exactly the entries that the
\* body's responses match, the waiting call receives the first response that
\* matches it, the log and the playtest state are what the events of known
\* types alone yield, and no client or queue is touched; with no matching
\* response and no known event the push changes none of them.
C23_PushSkipsUnmatched ==
    [][\A body \in PushBodies :
          LET responses == body.responses
              events == body.events
          IN
          handle_push(UnknownClient, responses, events) =>
              /\ http_response' =
                     Some([route |-> "/push", status |-> 200,
                           body |-> "{\"ok\":true}"])
              /\ pending_calls' =
                     pending_calls \ {responses[i].request_id
                                      : i \in Matching(responses)}
              /\ \A i \in Matching(responses) :
                     ReceiverAlive(responses[i].request_id) =>
                         rx' = Some(responses[i])
              /\ (\A i \in Matching(responses) :
                     ~ReceiverAlive(responses[i].request_id)) => rx' = rx
              /\ LET st == handle_events([log_seq |-> log_seq,
                                          log_buffer |-> log_buffer,
                                          playtest_state |-> playtest_state],
                                         Recognized(events), now)
                 IN  /\ log_seq' = st.log_seq
                     /\ log_buffer' = st.log_buffer
                     /\ playtest_state' = st.playtest_state
              /\ Recognized(events) = <<>> => UNCHANGED event_vars
              /\ UNCHANGED <<clients, permit, waiters, pull, enqueued,
                             drained>>]_vars

\* C23: one /push carried a response for a request id that is not pending
\* before the response of request 1, and an event of an unknown type before
\* a studio.playtest_state event: the first response was skipped, request 1
\* was resolved, the playtest state was updated and the answer was 200
C23_Witness ==
    /\ push_results = <<[request_id |-> UnknownRequest, resolved |-> FALSE],
                        [request_id |-> 1, resolved |-> TRUE]>>
    /\ IsSome(rx)
    /\ pending_calls = {}
    /\ playtest_state.active
    /\ log_buffer = <<>>
    /\ http_response = Some(Json_ok)

\* the step reads a line that fails at the protocol level: not JSON, a
\* method that handle_request does not know, tools/call without a name
ProtocolFailure ==
    \/ ReadParseError
    \/ \E m \in RequestMethods \ {"initialize", "ping", "tools/list"} :
           ReadRequest(m)
    \/ ReadToolsCallNoName

\* the step ends a tools/call with a failure of the tool: unsupported tool,
\* no plugin connected, failed enqueue, plugin-reported error, dropped slot
\* or timeout
ToolFailure ==
    \/ \E t \in DisabledTools : ReadDisabledTool(t)
    \/ pc = "read" /\ pc' = "read" /\ ReadPluginTool("studio-virtualuser_key")
    \/ pc = "enqueue" /\ pc' = "read"
    \/ pc = "await" /\ pc' = "read" /\ (rx = None \/ ~Unwrap(rx).success)

\* C24: a reply with a JSON-RPC error is written only by a step that reads
\* a line failing at the protocol level, with code -32700, -32601 or
\* -32602 and no result; every step that ends a tools/call with a failure of
\* the tool writes a JSON-RPC success whose result has isError = true.
C24_ErrorOnlyForProtocol ==
    [][Len(stdout') > Len(stdout) =>
          LET reply == stdout'[Len(stdout')]
          IN  /\ IsSome(reply.error) =>
                     /\ ProtocolFailure
                     /\ reply.result = None
                     /\ Unwrap(reply.error).code \in {-32700, -32601, -32602}
              /\ ProtocolFailure => IsSome(reply.error)
              /\ ToolFailure =>
                     /\ reply.error = None
                     /\ IsSome(reply.result)
                     /\ Unwrap(reply.result).kind = "tool"
                     /\ Unwrap(reply.result).isError]_vars

\* C24: a tools/call without a name was answered with error -32602, and a
\* tools/call that found its client pruned at the enqueue was answered with
\* a success whose result is the error text
C24_Witness ==
    /\ Len(stdout) = 2
    /\ stdout[1] = JsonRpcResponse_error(Some(1), -32602,
                       "Missing 'name' in tools/call params")
    /\ stdout[2] = ToolReply(2, "Failed to enqueue tool request to plugin", TRUE)

\* C25: a line that is not a JSON-RPC message is answered with one error
\* reply, id null and code -32700, and changes nothing else: the registry,
\* the pending calls, the log, the playtest state and the histories stay
\* as they are and the loop is at reading again, so that as long as lines
\* arrive a request is read and answered.
C25_ParseErrorGoesOn ==
    /\ [][ReadParseError =>
             /\ Len(stdout') = Len(stdout) + 1
             /\ stdout'[Len(stdout')].id = None
             /\ stdout'[Len(stdout')].result = None
             /\ Unwrap(stdout'[Len(stdout')].error).code = -32700
             /\ pc' = "read"
             /\ UNCHANGED <<now, http_vars, pending_calls, next_request, call,
                            rx, event_vars, bridge_vars, history_vars>>]_vars
    /\ []((\E i \in 1..Len(stdout) : stdout[i].id = None)
              => pc \in {"read", "register", "enqueue", "await"})
    /\ []((pc = "read" /\ lines < MaxLines) => ENABLED ReadRequest("ping"))

\* C25: line 1 did not parse and was answered with the error, id null;
\* line 2, a ping, was read and answered after it
C25_Witness ==
    /\ Len(stdout) = 2
    /\ stdout[1].id = None
    /\ IsSome(stdout[1].error)
    /\ Unwrap(stdout[1].error).code = -32700
    /\ stdout[2] = JsonRpcResponse_success(Some(2), PlainResult("empty"))
    /\ requests_read = {2}

\* C26: a request that arrives on stdin while a tools/call awaits its
\* plugin reply is read and answered without waiting for that call.
C26_ReadsWhileAwaiting ==
    (pc = "await" /\ rx = None /\ lines < MaxLines)
        => ENABLED ReadRequest("ping")

\* C27: standard output is written by the writer task alone, line by
\* line in the order of the channel: the pieces of line 1, its newline, the
\* pieces of line 2, its newline, and so on, so that no piece of a line
\* follows a piece of another line that has not got its newline yet; a
\* step that produces a response writes nothing itself.
C27_LinesNeverInterleave ==
    /\ [](\A k \in 1..Len(terminal) :
              /\ terminal[k].line = ((k - 1) \div (LineChunks + 1)) + 1
              /\ terminal[k].part = k % (LineChunks + 1))
    /\ [](\A k \in 1..Len(terminal) : terminal[k].line <= Len(stdout))
    /\ [][terminal' # terminal => UNCHANGED stdout /\ writer' # writer]_vars
    /\ [][stdout' # stdout => UNCHANGED <<terminal, writer>>]_vars

\* C27: two responses were produced before the writer had finished the
\* first; the writer has written line 1 whole, with its newline, and the
\* first piece of line 2
C27_Witness ==
    /\ Len(stdout) = 2
    /\ writer.received = 2
    /\ terminal = <<[line |-> 1, part |-> 1], [line |-> 1, part |-> 2],
                    [line |-> 1, part |-> 0], [line |-> 2, part |-> 1]>>

\* C28: when the enqueue finds no client after has_connected_client found
\* one, the call is answered at once with the "Failed to enqueue" error and
\* the pending entry of its request id is gone.
C28_FailedEnqueueLeavesNoEntry ==
    [][(pc = "enqueue" /\ pc' = "read") =>
          /\ stdout' = Append(stdout,
                 ToolReply(call.id, "Failed to enqueue tool request to plugin",
                           TRUE))
          /\ now' = now
          /\ call.request_id \notin pending_calls']_vars

\* the step appends to the queue of client k
QueueGrows(k) ==
    /\ k \in DOMAIN clients
    /\ k \in DOMAIN clients'
    /\ Len(clients'[k].outbound_queue) > Len(clients[k].outbound_queue)

\* the step sends one signal on the wake primitive of client k and none on
\* another: the longest waiter of k is woken and leaves the list, or, with
\* no waiter, the permit of k is set
SignalsOnce(k) ==
    /\ IF waiters[k] # <<>>
       THEN /\ pull' = [pull EXCEPT ![Head(waiters[k])].pc = "woken"]
            /\ waiters' = [waiters EXCEPT ![k] = Tail(@)]
            /\ permit' = permit
       ELSE /\ pull' = pull
            /\ waiters' = waiters
            /\ permit' = [permit EXCEPT ![k] = TRUE]

\* the step wakes a waiting /pull or stores a permit
SomeSignal ==
    \/ \E c \in ClientIds : permit'[c] /\ ~permit[c]
    \/ \E h \in Handlers : pull[h].pc = "waiting" /\ pull'[h].pc = "woken"

\* C29: a step that appends to a client's queue appends one request to
\* that queue alone and, in the same step, sends exactly one signal on that
\* client's wake primitive; a step that wakes a waiting /pull or stores a
\* permit is a step that appends to the queue of that client.
C29_AppendPairedWithSignal ==
    /\ [][\A k \in ClientIds :
             QueueGrows(k) =>
                 /\ AppendsTo(k)
                 /\ SignalsOnce(k)]_vars
    /\ [][SomeSignal =>
             \E k \in ClientIds : QueueGrows(k) /\ SignalsOnce(k)]_vars

\* C29: a /pull waits on client 1 while a request was routed to client 2:
\* the permit of client 2 is stored, the /pull on client 1 still waits and
\* client 1 has no permit
C29_Witness ==
    /\ DOMAIN clients = {1, 2}
    /\ clients[2].outbound_queue # <<>>
    /\ clients[1].outbound_queue = <<>>
    /\ permit[2]
    /\ ~permit[1]
    /\ \E h \in Handlers : pull[h].pc = "waiting" /\ pull[h].client_id = 1

\* handler h drains in this step: the immediate drain of a /pull or the
\* drain after its wakeup
Drains(h) ==
    \/ pull[h].pc = "idle" /\ pull'[h].pc # "idle"
    \/ pull[h].pc = "woken" /\ pull'[h].pc = "done"

\* C30: a drain on a registered client leaves its last_poll at the current
\* time and its queue empty, whether or not the queue held anything; a
\* /pull that ends by its deadline changes no client, so last_poll is still
\* the time of the last drain; and a step that changes the last_poll of a
\* client is a drain on that client.
C30_LastPollSetByDrainOnly ==
    /\ [][\A h \in Handlers :
             (Drains(h) /\ pull'[h].client_id \in DOMAIN clients) =>
                 /\ clients'[pull'[h].client_id].last_poll = now
                 /\ clients'[pull'[h].client_id].outbound_queue = <<>>]_vars
    /\ [][\A h \in Handlers :
             (pull[h].pc = "waiting" /\ pull'[h].pc = "done") =>
                 /\ now = pull[h].deadline
                 /\ pull'[h].body = <<>>
                 /\ UNCHANGED <<clients, drained>>]_vars
    /\ [][\A k \in DOMAIN clients \cap DOMAIN clients' :
             clients'[k].last_poll # clients[k].last_poll =>
                 \E h \in Handlers : Drains(h) /\ pull'[h].client_id = k]_vars
    /\ [](\A k \in DOMAIN clients : clients[k].last_poll <= now)

\* C30: the client registered at 0; a /pull started at 30 found the queue
\* empty, set last_poll to 30 and has ended by its deadline at 55 with an
\* empty array; last_poll is still 30
C30_Witness ==
    /\ now = 55
    /\ DOMAIN clients = {1}
    /\ clients[1].last_poll = 30
    /\ enqueued[1] = <<>>
    /\ \E h \in Handlers :
           pull[h].pc = "done" /\ pull[h].body = <<>> /\ pull[h].status = 200

\* the Mutexes whose guard task t holds
HeldBy(t) == {m \in Mutexes : mutex[m] = t}

\* C31: no task holds the guards of two Mutexes of the shared state at a
\* time; a task that takes log_buffer holds nothing, log_seq least of all;
\* a release frees a Mutex that the task holds; and whenever a handler is
\* unfinished some task can take its next step, so the tasks never wait for
\* each other's locks in a cycle.
C31_OneLockAtATime ==
    /\ [](\A t \in Tasks : Cardinality(HeldBy(t)) <= 1)
    /\ [][\A t \in Tasks :
             (mutex["log_buffer"] # t /\ mutex'["log_buffer"] = t)
                 => HeldBy(t) = {}]_vars
    /\ [][\A t \in Tasks :
             LockRelease(t) => mutex[Head(running[t]).mutex] = t]_vars
    /\ []((\E t \in Tasks : running[t] # <<>>)
              => ENABLED (\E t \in Tasks : LockAcquire(t) \/ LockRelease(t)))

\* C31: a /push handler appends its log entry under log_buffer, having
\* released log_seq, which the other /push handler now holds, while the
\* stdio task holds clients
C31_Witness ==
    /\ mutex["log_buffer"] = "http1"
    /\ mutex["log_seq"] = "http2"
    /\ mutex["clients"] = "stdio"
    /\ running["http1"] = <<Unlock("log_buffer")>> \o update_playtest_locks

\* C32: a step that reads a message without id, whatever its method, writes
\* nothing to stdout and changes nothing of the shared state: the registry,
\* the wakeup state, the pending table, the receiver, the log, the playtest
\* state and the histories stay as they are, and the loop reads on; a
\* waiting tools/call ends only by its reply or its deadline, in a step that
\* reads no line.
C32_NotificationsChangeNothing ==
    /\ [][\A m \in NotificationMethods :
             ReadNotification(m) =>
                 /\ lines' = lines + 1
                 /\ pc' = "read"
                 /\ UNCHANGED <<stdout, pending_calls, rx, call, clients,
                                permit, waiters, pull, next_request,
                                event_vars, history_vars, now>>]_vars
    /\ [][(pc = "await" /\ pc' # "await") =>
             /\ lines' = lines
             /\ IsSome(rx) \/ now >= call.deadline]_vars

\* C32: the call of line 1 timed out and its pending entry is still in the
\* table (see C4); line 2, a message without id, was read: nothing was
\* written for it and the entry is still there
C32_Witness ==
    /\ lines = 2
    /\ pc = "read"
    /\ requests_read = {1}
    /\ Len(stdout) = 1
    /\ stdout[1] = TimeoutReply(1, "studio-virtualuser_key")
    /\ pending_calls = {1}

\* C33: the pending entry of a request exists before the request can be
\* seen: a step that appends a request to a client's queue finds its
\* request id in the pending table already, every queued request has its
\* entry, a step in which a /pull returns requests finds the entry of each
\* of them, and an entry leaves the table only in a /push that resolves it.
C33_PendingBeforeEnqueue ==
    /\ [][\A k \in ClientIds :
             enqueued'[k] # enqueued[k] =>
                 /\ RequestIdsOf(enqueued'[k]) \ RequestIdsOf(enqueued[k])
                        \subseteq pending_calls
                 /\ call.request_id \in pending_calls
                 /\ enqueued'[k] = Append(enqueued[k],
                        BridgeToolRequest(call.request_id, call.tool_name))]_vars
    /\ [](\A k \in DOMAIN clients :
              RequestIdsOf(clients[k].outbound_queue) \subseteq pending_calls)
    /\ [][\A k \in ClientIds :
             RequestIdsOf(drained'[k]) \ RequestIdsOf(drained[k])
                 \subseteq pending_calls]_vars
    /\ [][\A r \in pending_calls \ pending_calls' :
             \E i \in 1..Len(push_results') :
                 push_results'[i] = [request_id |-> r, resolved |-> TRUE]]_vars

\* C33: the request of the call in progress was returned by a /pull and the
\* /push that followed found its entry and resolved it
C33_Witness ==
    /\ pc = "await"
    /\ call.request_id = 1
    /\ RequestIdsOf(drained[1]) = {1}
    /\ push_results = <<[request_id |-> 1, resolved |-> TRUE]>>
    /\ IsSome(rx)
    /\ pending_calls = {}

\* C34: a /pull for a registered client that returns an empty array does so
\* by its timeout, 25 s after it began to wait; a /pull that returns before
\* its deadline returns requests.
C34_EmptyOnlyAtDeadline ==
    [][\A h \in Handlers :
          (/\ pull[h].pc # "done"
           /\ pull'[h].pc = "done"
           /\ pull'[h].status = 200
           /\ pull'[h].body = <<>>)
          => /\ pull[h].pc = "waiting"
             /\ now = pull[h].deadline]_vars

\* the reply of a call whose sender was dropped unsent
DisconnectedReply(id) ==
    ToolReply(id, "Plugin disconnected while processing tool call", TRUE)

\* C35: a request id leaves the pending table only in a /push whose
\* resolve_pending found it, and in that step the response is sent into the
\* receiver of the call if that call still waits; pruning and the timeout
\* of a call remove nothing from the table.  So a waiting call never finds
\* its sender dropped, no reply carries the "Plugin disconnected" text, and
\* a call that was enqueued ends with a response in its receiver or at its
\* deadline with the timeout reply.
C35_SenderNeverDropped ==
    /\ [][\A r \in pending_calls \ pending_calls' :
             /\ \E i \in 1..Len(push_results') :
                    push_results'[i] = [request_id |-> r, resolved |-> TRUE]
             /\ ReceiverAlive(r) =>
                    IsSome(rx') /\ Unwrap(rx').request_id = r]_vars
    /\ [][DOMAIN clients' # DOMAIN clients => pending_calls' = pending_calls]_vars
    /\ [][(pc = "await" /\ pc' = "read") =>
             /\ pending_calls' = pending_calls
             /\ \/ IsSome(rx)
                \/ /\ now >= call.deadline
                   /\ stdout' = Append(stdout,
                          TimeoutReply(call.id, call.tool_name))]_vars
    /\ [](pc = "await" => await_outcome # "disconnected")
    /\ [](\A i \in 1..Len(stdout), id \in 1..MaxLines :
              stdout[i] # DisconnectedReply(id))

\* C35: call 1 was resolved by a /push; the client of call 2 was pruned
\* while the call waited, the call ended by its timeout and its entry is
\* still in the table
C35_Witness ==
    /\ now = 90
    /\ DOMAIN clients = {}
    /\ Len(stdout) = 2
    /\ stdout[1] = ToolReply(1, "ok", FALSE)
    /\ stdout[2] = TimeoutReply(2, "studio-virtualuser_key")
    /\ pending_calls = {2}

\* C36: the client of a plugin that starts each /pull less than 35 s after
\* the previous one returned stays registered: its last poll is never more
\* than 59 s old, no step removes it from the registry, every prune leaves
\* the registry as it is, and while one of its /pull requests waits its
\* last poll is at most 25 s old.
C36_PollingClientNotPruned ==
    /\ [](PollingClient \in 1..next_client =>
              /\ PollingClient \in DOMAIN clients
              /\ now - clients[PollingClient].last_poll < PRUNE_CUTOFF)
    /\ [](\A h \in Pollers :
              pull[h].pc = "waiting" =>
                  /\ pull[h].client_id \in DOMAIN clients
                  /\ now - clients[pull[h].client_id].last_poll <= PULL_TIMEOUT)
    /\ [][(PollingClient \in DOMAIN clients)
              => (PollingClient \in (DOMAIN clients)')]_vars
    /\ [](PollingClient \in DOMAIN clients =>
              /\ PollingClient \in DOMAIN prune_stale_clients(clients, now)
              /\ prune_stale_clients(clients, now)[PollingClient]
                     = clients[PollingClient])

\* C36: the plugin registered at 0, began its first /pull at 34, which
\* ended by its deadline at 59, and began the next at 90; the caller's
\* tools/call at 90 pruned and found the client
C36_Witness ==
    /\ now = 90
    /\ DOMAIN clients = {1}
    /\ clients[1].last_poll = 90
    /\ \E h \in Pollers : pull[h].pc = "waiting" /\ pull[h].deadline = 115
    /\ pc = "await"
    /\ call.deadline = 120

\* C37: when several registered clients are of the class the tool prefers,
\* the request is appended to the queue of the one among them whose last
\* poll is the most recent.
C37_RoutesToMostRecentOfClass ==
    [][EnqueueStep /\ MatchingClients(call.tool_name) # {}
       => \E k \in MatchingClients(call.tool_name) :
              /\ AppendsTo(k)
              /\ \A j \in MatchingClients(call.tool_name) :
                     clients[j].last_poll <= clients[k].last_poll]_vars

\* C38: a /push step taken with one clientId is the step of the same body
\* with any other clientId, that of the client the request was routed to,
\* of another registered client or of none: the state it leads to is the
\* same.  A response whose request id is pending resolves it whoever pushes,
\* the events are applied, and no client record is touched.
C38_PushIgnoresClientId ==
    [][\A c \in PushClientIds, r \in KnownRequestIds, b \in PushIdBodies,
          events \in PushIdEvents :
          handle_push(c, <<BridgeToolResponse(r, b)>>, events) =>
              /\ \A d \in PushClientIds :
                     handle_push(d, <<BridgeToolResponse(r, b)>>, events)
              /\ r \in pending_calls =>
                     /\ pending_calls' = pending_calls \ {r}
                     /\ push_results' = <<[request_id |-> r, resolved |-> TRUE]>>
                     /\ ReceiverAlive(r) => rx' = Some(BridgeToolResponse(r, b))
              /\ events = <<PlaytestOn>> => playtest_state'.active
              /\ clients' = clients]_vars

\* C38: both clients are registered, the request went to client 1 alone and
\* was returned by its /pull; the /push that resolved it and set the
\* playtest state named another clientId
C38_Witness ==
    /\ DOMAIN clients = {1, 2}
    /\ RoutedTo(1) = {1}
    /\ Len(drained[1]) = 1
    /\ push_results = <<[request_id |-> 1, resolved |-> TRUE]>>
    /\ IsSome(rx)
    /\ playtest_state.active
    /\ pc = "await"

\* the data of the studio-status results written so far
StatusResults ==
    {Unwrap(Unwrap(stdout[i].result).data)
     : i \in {j \in 1..Len(stdout) :
                 /\ IsSome(stdout[j].result)
                 /\ Unwrap(stdout[j].result).text = "status"}}

\* C39: in every studio-status result, connected is true exactly when the
\* clients list is not empty, and clientId is present exactly when
\* connected is true and is then the id of one of the listed clients.
C39_StatusIsSnapshot ==
    \A d \in StatusResults :
        /\ d.connected <=> d.clients # {}
        /\ IsSome(d.clientId) <=> d.connected
        /\ IsSome(d.clientId) =>
               \E c \in d.clients : c.clientId = Unwrap(d.clientId)

====
